---- MODULE Spec2Model ----
(***************************************************************************)
(* Payment ledger of the RocketGate / Shoplazza bridge.                    *)
(*                                                                         *)
(* The ledger is the `payments` table (src/db/connection.js) driven by     *)
(* createOrUpdatePayment / setPaymentStatus / getPayment                   *)
(* (src/db/payments.js).  Every ledger function is async: it reads the     *)
(* row, suspends, then writes.  The route handlers (routes/pay.js,         *)
(* routes/appProxy.js, routes/callbacks.js) call the ledger functions      *)
(* without awaiting them, so what they hold is a pending promise.          *)
(***************************************************************************)
EXTENDS Integers, Sequences, FiniteSets, TLC

VARIABLES payments, nextId, tasks, last, http, budget, orders, now, OAUTH_STATES, shops, rg_settings

vars == <<payments, nextId, tasks, last, http, budget, orders, now, OAUTH_STATES, shops, rg_settings>>

\* the clock and the stores of the embedded app: left alone by the ledger,
\* the callbacks and the order API
appVars == <<now, OAUTH_STATES, shops, rg_settings>>

(* ------------------------------ bounds -------------------------------- *)

\* ledger calls made in one behaviour of LedgerSpec
LedgerMaxCalls == 2

\* ledger calls made in one behaviour of MultiSpec
MultiMaxCalls == 3

\* ledger calls started in one behaviour of Spec
SpecMaxCalls == 2

\* ledger calls that may be in flight (suspended at an await) at once
MaxTasks == 2

(* ------------------------------ values -------------------------------- *)

\* JavaScript null / undefined / SQL NULL
NULL == "null"

\* src/db/payments.js:30-41
RANK ==
  [ initiated |-> 0, pending |-> 1, returned_fail |-> 2, returned_success |-> 3,
    paid |-> 4, refunded |-> 5, voided |-> 6, chargeback |-> 7, error |-> 8,
    declined |-> 9 ]

Vocabulary == DOMAIN RANK

\* rank lookup used by canAdvance: a status outside the table counts as 0
RankOf(s) == IF s \in DOMAIN RANK THEN RANK[s] ELSE 0

\* canAdvance without the rank comparison: the last write always wins
canAdvance_lastWriteWins(oldStatus, newStatus) == TRUE

\* canAdvance with an off-by-one rank comparison
canAdvance_offByOne(oldStatus, newStatus) ==
  IF oldStatus = NULL THEN TRUE ELSE RankOf(newStatus) + 1 >= RankOf(oldStatus)

\* src/db/payments.js:43-48
canAdvance(oldStatus, newStatus) ==
  IF oldStatus = NULL THEN TRUE ELSE RankOf(newStatus) >= RankOf(oldStatus)

\* src/db/payments.js:58-67 ; the JSON text is kept as the sequence it encodes,
\* a NULL column is the empty sequence (the code never stores "[]").
appendHistoryText(prevText, entry) == Append(prevText, entry)

\* The `amount` column is REAL / numeric (connection.js:204): a decimal string
\* is stored as the number it denotes and read back in the number's rendering.
SqlAmount(v) ==
  CASE v = "10.00" -> "10"
    [] v = "15.50" -> "15.5"
    [] OTHER -> v

\* the result of getPayment when no row matches (row ?? null), with every
\* property access prev?.x giving NULL
NoRow ==
  [ id |-> 0, shop_domain |-> NULL, order_id |-> NULL, payment_id |-> NULL,
    customer_id |-> NULL, amount |-> NULL, currency |-> NULL, status |-> NULL,
    rocketgate_txn |-> NULL, status_history |-> <<>> ]

\* src/db/payments.js:71-79 ; executeTakeFirst without ORDER BY returns any
\* one of the matching rows: the result is drawn from this set.
getPayment(rows, orderId) ==
  IF orderId = NULL THEN {NoRow}
  ELSE LET m == {r \in rows : r.order_id = orderId}
       IN IF m = {} THEN {NoRow} ELSE m

\* x ?? y
Coalesce(x, y) == IF x # NULL THEN x ELSE y

(* ----------------------- createOrUpdatePayment ------------------------ *)

\* argument record of a ledger call (defaults of payments.js:97-107)
Args(shopDomain, orderId, paymentId, customerId, amount, currency, status, rocketgateTxnId, appendHistory) ==
  [ shopDomain |-> shopDomain, orderId |-> orderId, paymentId |-> paymentId,
    customerId |-> customerId, amount |-> amount, currency |-> currency,
    status |-> status, rocketgateTxnId |-> rocketgateTxnId,
    appendHistory |-> appendHistory ]

\* src/db/payments.js:112-113
couNextStatus(prev, status) ==
  IF status # NULL /\ canAdvance(prev.status, status) THEN status
  ELSE Coalesce(prev.status, Coalesce(status, "pending"))

\* the write set whose history entry records the status asked for
couToWrite_entryOfRequest(a, prev) ==
  LET nextStatus == couNextStatus(prev, a.status)
      historyEntry == [status |-> Coalesce(a.status, "pending"), source |-> "createOrUpdate"]
  IN [ shop_domain |-> Coalesce(a.shopDomain, prev.shop_domain),
       order_id |-> a.orderId,
       payment_id |-> Coalesce(a.paymentId, prev.payment_id),
       customer_id |-> Coalesce(a.customerId, prev.customer_id),
       amount |-> Coalesce(a.amount, prev.amount),
       currency |-> Coalesce(a.currency, prev.currency),
       status |-> nextStatus,
       rocketgate_txn |-> Coalesce(a.rocketgateTxnId, prev.rocketgate_txn),
       status_history |->
         IF a.appendHistory
         THEN appendHistoryText(prev.status_history, historyEntry)
         ELSE prev.status_history ]

\* src/db/payments.js:115-131
couToWrite(a, prev) ==
  LET nextStatus == couNextStatus(prev, a.status)
      historyEntry == [status |-> nextStatus, source |-> "createOrUpdate"]
  IN [ shop_domain |-> Coalesce(a.shopDomain, prev.shop_domain),
       order_id |-> a.orderId,
       payment_id |-> Coalesce(a.paymentId, prev.payment_id),
       customer_id |-> Coalesce(a.customerId, prev.customer_id),
       amount |-> Coalesce(a.amount, prev.amount),
       currency |-> Coalesce(a.currency, prev.currency),
       status |-> nextStatus,
       rocketgate_txn |-> Coalesce(a.rocketgateTxnId, prev.rocketgate_txn),
       status_history |->
         IF a.appendHistory
         THEN appendHistoryText(prev.status_history, historyEntry)
         ELSE prev.status_history ]

\* a payments table whose key columns were left nullable
NotNullViolation_nullable(w) == w.order_id = NULL \/ w.status = NULL

\* connection.js:198-200,208 : shop_domain, order_id, payment_id and status
\* are NOT NULL; an INSERT carrying NULL there is rejected by the engine
\* before any ON CONFLICT handling.
NotNullViolation(w) ==
  \/ w.shop_domain = NULL
  \/ w.order_id = NULL
  \/ w.payment_id = NULL
  \/ w.status = NULL

\* connection.js:227-231 : the row the unique constraint
\* (shop_domain, order_id, payment_id) makes the INSERT collide with.
\* SQL unique constraints never treat two NULLs as equal.
ConflictRows(rows, w) ==
  {r \in rows : /\ w.shop_domain # NULL /\ r.shop_domain = w.shop_domain
                /\ w.order_id # NULL /\ r.order_id = w.order_id
                /\ w.payment_id # NULL /\ r.payment_id = w.payment_id}

\* src/db/payments.js:139-173 : DO UPDATE SET applied to the colliding row
couDoUpdateSet(r, w) ==
  [ r EXCEPT
      !.shop_domain = w.shop_domain,
      !.customer_id = IF w.customer_id # NULL THEN w.customer_id ELSE r.customer_id,
      !.amount = IF w.amount # NULL THEN SqlAmount(w.amount) ELSE r.amount,
      !.currency = IF w.currency # NULL THEN w.currency ELSE r.currency,
      !.rocketgate_txn =
          IF w.rocketgate_txn # NULL THEN w.rocketgate_txn ELSE r.rocketgate_txn,
      !.status = IF w.status # NULL THEN w.status ELSE r.status,
      !.status_history =
          IF w.status_history # <<>> THEN w.status_history ELSE r.status_history ]

\* src/db/payments.js:136-175 : INSERT ... ON CONFLICT DO UPDATE
couUpsert(rows, id, w) ==
  LET hit == ConflictRows(rows, w)
  IN IF hit = {}
     THEN rows \cup {[ id |-> id, shop_domain |-> w.shop_domain,
                       order_id |-> w.order_id, payment_id |-> w.payment_id,
                       customer_id |-> w.customer_id,
                       amount |-> SqlAmount(w.amount),
                       currency |-> w.currency, status |-> w.status,
                       rocketgate_txn |-> w.rocketgate_txn,
                       status_history |-> w.status_history ]}
     ELSE (rows \ hit) \cup {couDoUpdateSet(r, w) : r \in hit}

(* -------------------------- setPaymentStatus -------------------------- *)

\* src/db/payments.js:194 : the call made when no row exists
spsAsCreateArgs(a) ==
  Args(NULL, a.orderId, NULL, NULL, NULL, NULL, a.status, a.rocketgateTxnId,
       a.appendHistory)

\* the UPDATE of setPaymentStatus that keeps a transaction id already stored
spsUpdate_keepTxn(rows, a, prev) ==
  {IF r.order_id = a.orderId
   THEN [ r EXCEPT !.status = a.status,
                   !.rocketgate_txn =
                       Coalesce(prev.rocketgate_txn, a.rocketgateTxnId),
                   !.status_history =
                       IF a.appendHistory
                       THEN appendHistoryText(prev.status_history,
                              [status |-> a.status, source |-> "setStatus"])
                       ELSE prev.status_history ]
   ELSE r : r \in rows}

\* src/db/payments.js:202-215 : UPDATE payments SET ... WHERE order_id = ?
spsUpdate(rows, a, prev) ==
  LET history ==
        IF a.appendHistory
        THEN appendHistoryText(prev.status_history,
                               [status |-> a.status, source |-> "setStatus"])
        ELSE prev.status_history
  IN {IF r.order_id = a.orderId
      THEN [ r EXCEPT !.status = a.status,
                      !.rocketgate_txn =
                          Coalesce(a.rocketgateTxnId, prev.rocketgate_txn),
                      !.status_history = history ]
      ELSE r : r \in rows}

(* ------------------------------ state --------------------------------- *)

NoArgs == Args(NULL, NULL, NULL, NULL, NULL, NULL, NULL, NULL, TRUE)

\* a free slot of the table of ledger calls in flight
IdleTask ==
  [ via |-> "none", fn |-> "none", args |-> NoArgs, pc |-> "idle",
    inner |-> FALSE, prev |-> NoRow, seen |-> {} ]

TaskIds == 1..MaxTasks

\* the record of the ledger call that completed last: its arguments, the row
\* it read first (prev), what it returned (ret) and how it ended
NoCall ==
  [ via |-> "none", fn |-> "none", args |-> Args(NULL, NULL, NULL, NULL, NULL, NULL, NULL, NULL, TRUE),
    prev |-> NoRow, ret |-> NoRow, outcome |-> "none" ]

Completed(via, fn, a, prev, ret, outcome) ==
  [ via |-> via, fn |-> fn, args |-> a, prev |-> prev, ret |-> ret, outcome |-> outcome ]

\* an empty payments table, no request in flight; n calls may be made
InitWith(n) ==
  /\ payments = {}
  /\ nextId = 1
  /\ tasks = [t \in TaskIds |-> IdleTask]
  /\ last = NoCall
  /\ http = <<>>
  /\ budget = n
  /\ orders = {}
  /\ now = 0
  /\ OAUTH_STATES = {}
  /\ shops = {}
  /\ rg_settings = {}

(* ---------------- ledger calls run to completion ---------------------- *)

\* src/db/payments.js:97-178 run without interleaving, on behalf of fn
couRun(fn, a0, a) ==
  IF a.orderId = NULL
  THEN /\ last' = Completed("api", fn, a0, NoRow, NoRow, "throw")
       /\ UNCHANGED <<payments, nextId>>
  ELSE \E prev \in getPayment(payments, a.orderId) :
         LET w == couToWrite(a, prev)
         IN IF NotNullViolation(w)
            THEN /\ last' = Completed("api", fn, a0, prev, NoRow, "throw")
                 /\ UNCHANGED <<payments, nextId>>
            ELSE /\ payments' = couUpsert(payments, nextId, w)
                 /\ nextId' = IF ConflictRows(payments, w) = {} THEN nextId + 1 ELSE nextId
                 /\ \E ret \in getPayment(payments', a.orderId) :
                      last' = Completed("api", fn, a0, prev, ret, "ok")

\* createOrUpdatePayment(a), src/db/payments.js:97-178
createOrUpdatePayment(a) ==
  /\ UNCHANGED <<orders, appVars>>
  /\ budget > 0
  /\ budget' = budget - 1
  /\ couRun("createOrUpdatePayment", a, a)
  /\ UNCHANGED <<tasks, http>>

\* setPaymentStatus(a), src/db/payments.js:183-218
setPaymentStatus(a) ==
  /\ UNCHANGED <<orders, appVars>>
  /\ budget > 0
  /\ budget' = budget - 1
  /\ UNCHANGED <<tasks, http>>
  /\ IF a.orderId = NULL \/ a.status = NULL
     THEN /\ last' = Completed("api", "setPaymentStatus", a, NoRow, NoRow, "throw")
          /\ UNCHANGED <<payments, nextId>>
     ELSE \E prev \in getPayment(payments, a.orderId) :
            IF prev = NoRow
            THEN couRun("setPaymentStatus", a, spsAsCreateArgs(a))
            ELSE IF ~canAdvance(prev.status, a.status)
            THEN /\ last' = Completed("api", "setPaymentStatus", a, prev, prev, "ok")
                 /\ UNCHANGED <<payments, nextId>>
            ELSE /\ payments' = spsUpdate(payments, a, prev)
                 /\ UNCHANGED nextId
                 /\ \E ret \in getPayment(payments', a.orderId) :
                      last' = Completed("api", "setPaymentStatus", a, prev, ret, "ok")

(* ------------- LedgerSpec: one payment row, every status -------------- *)

LedgerCreateArgs ==
  { Args("s1", "o1", "p1", NULL, NULL, NULL, st, tx, ah) :
      st \in Vocabulary \cup {NULL}, tx \in {NULL, "t1"}, ah \in BOOLEAN }
    \cup { Args("s1", "o1", "p1", cu, NULL, NULL, st, NULL, TRUE) :
              cu \in {"c1", "c2"}, st \in {NULL, "pending"} }

LedgerStatusArgs ==
  { Args(NULL, "o1", NULL, NULL, NULL, NULL, st, tx, ah) :
      st \in Vocabulary, tx \in {NULL, "t2"}, ah \in BOOLEAN }

LedgerNext ==
  \/ \E a \in LedgerCreateArgs : createOrUpdatePayment(a)
  \/ \E a \in LedgerStatusArgs : setPaymentStatus(a)

LedgerInit == InitWith(LedgerMaxCalls)

LedgerSpec == LedgerInit /\ [][LedgerNext]_vars

(* ------ MultiSpec: several payment rows of one order, few statuses ----- *)

MultiStatuses == {"pending", "returned_success", "paid"}

MultiCreateArgs ==
  { Args(sh, "o1", pid, NULL, NULL, NULL, st, tx, TRUE) :
      sh \in {NULL, "s1", "s2"}, pid \in {NULL, "p1", "p2"},
      st \in MultiStatuses \cup {NULL}, tx \in {NULL, "t2"} }

MultiStatusArgs ==
  { Args(NULL, "o1", NULL, NULL, NULL, NULL, st, tx, TRUE) :
      st \in MultiStatuses, tx \in {NULL, "t1"} }

MultiNext ==
  \/ \E a \in MultiCreateArgs : createOrUpdatePayment(a)
  \/ \E a \in MultiStatusArgs : setPaymentStatus(a)

MultiInit == InitWith(MultiMaxCalls)

MultiSpec == MultiInit /\ [][MultiNext]_vars

(* ------------- ledger calls suspended at their awaits ------------------ *)

\* the lowest free slot receives a new call
FreeSlot(t) ==
  /\ tasks[t].pc = "idle"
  /\ \A u \in TaskIds : u < t => tasks[u].pc # "idle"

\* the statuses the rows of an order hold now; a call in flight carries, as
\* `seen`, what they were when the call was made (no step reads it)
StatusesOf(orderId) == {r.status : r \in {x \in payments : x.order_id = orderId}}

\* a call is entered: the async function runs up to its first await
Spawn(t, via, fn, a) ==
  tasks' = [tasks EXCEPT ![t] =
    [ via |-> via, fn |-> fn, args |-> a,
      pc |-> IF fn = "setPaymentStatus" THEN "sps_read" ELSE "cou_read",
      inner |-> FALSE, prev |-> NoRow, seen |-> StatusesOf(a.orderId) ]]

\* the call of slot t settles: its promise resolves (or rejects) and the
\* slot is free again
Settle(t, prev, ret, outcome) ==
  /\ last' = Completed(tasks[t].via, tasks[t].fn, tasks[t].args, prev, ret, outcome)
  /\ tasks' = [tasks EXCEPT ![t] = IdleTask]

\* the arguments createOrUpdatePayment runs with in slot t
couArgs(t) ==
  IF tasks[t].fn = "setPaymentStatus" THEN spsAsCreateArgs(tasks[t].args)
  ELSE tasks[t].args

\* a caller that awaits nothing enters createOrUpdatePayment (payments.js:97)
begin_createOrUpdatePayment(a) ==
  /\ UNCHANGED <<orders, appVars>>
  /\ budget > 0
  /\ budget' = budget - 1
  /\ \E t \in TaskIds : FreeSlot(t) /\ Spawn(t, "api", "createOrUpdatePayment", a)
  /\ UNCHANGED <<payments, nextId, last, http>>

\* a caller that awaits nothing enters setPaymentStatus (payments.js:183)
begin_setPaymentStatus(a) ==
  /\ UNCHANGED <<orders, appVars>>
  /\ budget > 0
  /\ budget' = budget - 1
  /\ \E t \in TaskIds : FreeSlot(t) /\ Spawn(t, "api", "setPaymentStatus", a)
  /\ UNCHANGED <<payments, nextId, last, http>>

\* payments.js:189-200 : argument check, `await getPayment`, then the branch
sps_read(t) ==
  /\ UNCHANGED <<orders, appVars>>
  /\ tasks[t].pc = "sps_read"
  /\ LET a == tasks[t].args
     IN IF a.orderId = NULL \/ a.status = NULL
        THEN Settle(t, NoRow, NoRow, "throw")
        ELSE \E prev \in getPayment(payments, a.orderId) :
               IF prev = NoRow
               THEN /\ tasks' = [tasks EXCEPT ![t].pc = "cou_read", ![t].inner = TRUE]
                    /\ UNCHANGED last
               ELSE IF ~canAdvance(prev.status, a.status)
               THEN Settle(t, prev, prev, "ok")
               ELSE /\ tasks' = [tasks EXCEPT ![t].pc = "sps_write", ![t].prev = prev]
                    /\ UNCHANGED last
  /\ UNCHANGED <<payments, nextId, http, budget>>

\* payments.js:108-110 : argument check and `await getPayment`
cou_read(t) ==
  /\ UNCHANGED <<orders, appVars>>
  /\ tasks[t].pc = "cou_read"
  /\ IF couArgs(t).orderId = NULL
     THEN Settle(t, NoRow, NoRow, "throw")
     ELSE \E prev \in getPayment(payments, couArgs(t).orderId) :
            /\ tasks' = [tasks EXCEPT ![t].pc = "cou_write", ![t].prev = prev]
            /\ UNCHANGED last
  /\ UNCHANGED <<payments, nextId, http, budget>>

\* the row a settled call reports as the one it read first
ReportedPrev(t) == IF tasks[t].inner THEN NoRow ELSE tasks[t].prev

\* payments.js:112-175 : the write set built from the row read earlier, then
\* the upsert against the table as it is now
cou_write(t) ==
  /\ UNCHANGED <<orders, appVars>>
  /\ tasks[t].pc = "cou_write"
  /\ LET w == couToWrite(couArgs(t), tasks[t].prev)
     IN IF NotNullViolation(w)
        THEN /\ Settle(t, ReportedPrev(t), NoRow, "throw")
             /\ UNCHANGED <<payments, nextId>>
        ELSE /\ payments' = couUpsert(payments, nextId, w)
             /\ nextId' = IF ConflictRows(payments, w) = {} THEN nextId + 1 ELSE nextId
             /\ tasks' = [tasks EXCEPT ![t].pc = "cou_ret"]
             /\ UNCHANGED last
  /\ UNCHANGED <<http, budget>>

\* payments.js:202-215 : the UPDATE built from the row read earlier
sps_write(t) ==
  /\ UNCHANGED <<orders, appVars>>
  /\ tasks[t].pc = "sps_write"
  /\ payments' = spsUpdate(payments, tasks[t].args, tasks[t].prev)
  /\ tasks' = [tasks EXCEPT ![t].pc = "sps_ret"]
  /\ UNCHANGED <<nextId, last, http, budget>>

\* payments.js:177 and 217 : `return await getPayment(orderId)`
ret_read(t) ==
  /\ UNCHANGED <<orders, appVars>>
  /\ tasks[t].pc \in {"cou_ret", "sps_ret"}
  /\ \E ret \in getPayment(payments, tasks[t].args.orderId) :
       Settle(t, ReportedPrev(t), ret, "ok")
  /\ UNCHANGED <<payments, nextId, http, budget>>

(* ---- Spec: ledger calls on one payment row, interleaved at awaits ----- *)

SpecStatuses == {"pending", "returned_success", "paid"}

SpecCreateArgs ==
  { Args(k[1], "o1", k[2], NULL, NULL, NULL, st, NULL, TRUE) :
      k \in {<<"s1", "p1">>, <<NULL, NULL>>}, st \in SpecStatuses \cup {NULL} }

SpecStatusArgs ==
  { Args(NULL, "o1", NULL, NULL, NULL, NULL, st, tx, TRUE) :
      st \in SpecStatuses, tx \in {NULL, "t1"} }

Next ==
  \/ \E a \in SpecCreateArgs : begin_createOrUpdatePayment(a)
  \/ \E a \in SpecStatusArgs : begin_setPaymentStatus(a)
  \/ \E t \in TaskIds : sps_read(t)
  \/ \E t \in TaskIds : cou_read(t)
  \/ \E t \in TaskIds : cou_write(t)
  \/ \E t \in TaskIds : sps_write(t)
  \/ \E t \in TaskIds : ret_read(t)

Init == InitWith(SpecMaxCalls)

Spec == Init /\ [][Next]_vars

(* ------------- route handlers that call the ledger without await ------- *)

\* RouteSpec: requests served from an empty payments table
RouteMaxCalls == 2

\* what a handler holds after `getPayment(orderId)` or
\* `setPaymentStatus({...})` without await (pay.js:108, appProxy.js:75,
\* callbacks.js:178,189): the Promise of the async function, an object none
\* of whose row fields is defined
Unawaited == [NoRow EXCEPT !.id = -1]

\* JavaScript truthiness of what a handler holds: null is falsy, any object
\* (a row, a Promise) is truthy
Truthy(x) == x # NoRow

\* normalizeMajorAmountStr that takes a text that is no number for zero
normalizeMajorAmountStr_lenient(v) ==
  CASE v \in {"10", "10.0", "10.00"} -> "10.00"
    [] v \in {"15.5", "15.50"} -> "15.50"
    [] v = NULL -> NULL
    [] OTHER -> "0.00"

\* normalizeMajorAmountStr, pay.js:12-20 : Number(...).toFixed(2), null when
\* the value is null or not a finite number
normalizeMajorAmountStr(v) ==
  CASE v \in {"10", "10.0", "10.00"} -> "10.00"
    [] v \in {"15.5", "15.50"} -> "15.50"
    [] OTHER -> NULL

\* mapReturnResult that knows the word fail only
mapReturnResult_failOnly(resultRaw) ==
  IF resultRaw = "success" THEN "returned_success"
  ELSE IF resultRaw = "fail" THEN "returned_fail"
  ELSE "returned_unknown"

\* mapReturnResult, callbacks.js:91-95
mapReturnResult(resultRaw) ==
  IF resultRaw = "success" THEN "returned_success"
  ELSE IF resultRaw \in {"fail", "failure"} THEN "returned_fail"
  ELSE "returned_unknown"

\* a request and the response it got, as one entry of http
Served(route, req, code, conflicts) ==
  [ route |-> route, orderId |-> req.orderId, amount |-> req.amount,
    currency |-> req.currency, customerId |-> req.customerId,
    result |-> req.result, code |-> code, conflicts |-> conflicts,
    status |-> NULL, auth |-> <<>> ]

Req(orderId, amount, currency, customerId, result, txn) ==
  [ orderId |-> orderId, amount |-> amount, currency |-> currency,
    customerId |-> customerId, result |-> result, txn |-> txn ]

\* where an async function of the data layer is suspended first
EntryPc(fn) ==
  CASE fn = "setPaymentStatus" -> "sps_read"
    [] fn = "createOrder" -> "ord_insert"
    [] fn = "updateOrder" -> "ord_update"
    [] OTHER -> "cou_read"

\* the handler answers with `entry` and returns; the calls it made run on,
\* each in the lowest free slots in the order they were made
RespondWith(entry, calls) ==
  /\ budget > 0
  /\ budget' = budget - 1
  /\ Len(calls) <= Cardinality({t \in TaskIds : tasks[t].pc = "idle"})
  /\ http' = Append(http, entry)
  /\ tasks' = [t \in TaskIds |->
       LET k == Cardinality({u \in TaskIds : u <= t /\ tasks[u].pc = "idle"})
       IN IF tasks[t].pc = "idle" /\ k <= Len(calls)
          THEN [ via |-> entry.route, fn |-> calls[k].fn, args |-> calls[k].args,
                 pc |-> EntryPc(calls[k].fn), inner |-> FALSE, prev |-> NoRow,
                 seen |-> StatusesOf(calls[k].args.orderId) ]
          ELSE tasks[t]]
  /\ UNCHANGED <<payments, nextId, last, orders, appVars>>

\* the handler answers and returns, having started the ledger calls `calls`
Respond(route, req, code, conflicts, calls) ==
  RespondWith(Served(route, req, code, conflicts), calls)

Call(fn, a) == [fn |-> fn, args |-> a]

\* String(currency).trim().toUpperCase(), pay.js:98, on the texts used here
trimToUpperCase(c) ==
  CASE c \in {"usd", " usd ", "USD"} -> "USD"
    [] c = "us " -> "US"
    [] OTHER -> c

\* the conflicts of pay.js:110-133 between the row held and the request
payInitConflicts(existing, amount, currency, customerId) ==
  LET existingAmountMajor == normalizeMajorAmountStr(existing.amount)
  IN {f \in {"amount", "currency", "customer.id"} :
        \/ f = "amount" /\ existingAmountMajor # NULL /\ existingAmountMajor # amount
        \/ f = "currency" /\ existing.currency # NULL /\ existing.currency # currency
        \/ f = "customer.id" /\ existing.customer_id # NULL /\ existing.customer_id # customerId}

\* POST /pay/init, pay.js:56-198 ; env: merchant id and hash secret are set
payInit(req, env) ==
  LET normalizedAmountMajor == normalizeMajorAmountStr(req.amount)
      normalizedCurrency == trimToUpperCase(req.currency)
      existing == Unawaited
      conflicts == payInitConflicts(existing, normalizedAmountMajor, normalizedCurrency, req.customerId)
      backfill == Call("createOrUpdatePayment",
                    Args(NULL, req.orderId, NULL,
                         Coalesce(existing.customer_id, req.customerId),
                         Coalesce(existing.amount, normalizedAmountMajor),
                         Coalesce(existing.currency, normalizedCurrency),
                         Coalesce(existing.status, "initiated"), NULL, TRUE))
      fresh == Call("createOrUpdatePayment",
                 Args(NULL, req.orderId, NULL, req.customerId, normalizedAmountMajor,
                      normalizedCurrency, "initiated", NULL, TRUE))
  IN IF ~env THEN Respond("pay_init", req, 500, {}, <<>>)
     ELSE IF req.orderId = NULL \/ req.currency = NULL \/ req.customerId = NULL
     THEN Respond("pay_init", req, 400, {}, <<>>)
     ELSE IF normalizedAmountMajor = NULL THEN Respond("pay_init", req, 400, {}, <<>>)
     ELSE IF Len(normalizedCurrency) # 3 THEN Respond("pay_init", req, 400, {}, <<>>)
     ELSE IF ~Truthy(existing) THEN Respond("pay_init", req, 200, {}, <<fresh>>)
     ELSE IF conflicts # {} THEN Respond("pay_init", req, 409, conflicts, <<>>)
     ELSE IF NULL \in {existing.amount, existing.currency, existing.customer_id, existing.status}
     THEN Respond("pay_init", req, 200, {}, <<backfill>>)
     ELSE Respond("pay_init", req, 200, {}, <<>>)

\* the empty string, and a query parameter or cookie that is absent
EmptyText == [len |-> 0, upper |-> FALSE, mac |-> <<>>]

\* createHmac('sha256', secret).update(msg).digest('hex'): 64 lower-case hex
\* digits that are equal for equal secret and message only
HmacHex(secret, msg) == [len |-> 64, upper |-> FALSE, mac |-> <<secret, msg>>]

\* the query of an app-proxy request: the parameters that are present
\* besides signature, as key=value pairs sorted by key (appProxy.js:25-32);
\* encodeURIComponent leaves the values used here as they are
proxyPairs(req) ==
  LET all == << <<"amount", req.amount>>, <<"currency", req.currency>>,
                <<"customerId", req.customerId>>, <<"orderId", req.orderId>> >>
  IN SelectSeq(all, LAMBDA kv : kv[2] # NULL)

\* verifyProxySignature, appProxy.js:18-39 : the response code it ends the
\* request with, or 0 when it calls next(). A signature whose length is not
\* that of the hex digest makes crypto.timingSafeEqual throw, which the error
\* handler of index.js:160-164 answers with 500
verifyProxySignature(req, signature, shared) ==
  IF shared = NULL THEN 500
  ELSE IF signature = EmptyText THEN 401
  ELSE LET h == HmacHex(shared, proxyPairs(req))
       IN IF h.len # signature.len THEN 500
          ELSE IF h # signature THEN 401
          ELSE 0

\* SHOPLAZZA_PROXY_SHARED_SECRET
ProxySharedSecret == "proxy_secret"

\* the conflicts of appProxy.js:78-84 ; the amount is compared as it is held
appProxyConflicts(existing, amount, currency, customerId) ==
  {f \in {"amount", "currency", "customerId"} :
     \/ f = "amount" /\ existing.amount # NULL /\ existing.amount # amount
     \/ f = "currency" /\ existing.currency # NULL /\ existing.currency # currency
     \/ f = "customerId" /\ existing.customer_id # NULL /\ existing.customer_id # customerId}

\* GET /app-proxy/init, appProxy.js:59-132 ; sig is the signature parameter
\* of the query, kept with the response as `auth`
appProxyInit(req, sig) ==
  LET normalizedAmount == req.amount
      existing == Unawaited
      conflicts == appProxyConflicts(existing, normalizedAmount, req.currency, req.customerId)
      backfill == Call("createOrUpdatePayment",
                    Args(NULL, req.orderId, NULL,
                         Coalesce(existing.customer_id, req.customerId),
                         Coalesce(existing.amount, normalizedAmount),
                         Coalesce(existing.currency, req.currency),
                         Coalesce(existing.status, "pending"), NULL, TRUE))
      fresh == Call("createOrUpdatePayment",
                 Args(NULL, req.orderId, NULL, req.customerId, normalizedAmount,
                      req.currency, "pending", NULL, TRUE))
      checked == verifyProxySignature(req, sig, ProxySharedSecret)
      answer(code, cf, calls) ==
        RespondWith([Served("app_proxy_init", req, code, cf) EXCEPT !.auth = <<sig>>], calls)
  IN IF checked # 0 THEN answer(checked, {}, <<>>)
     ELSE IF NULL \in {req.orderId, req.amount, req.currency, req.customerId}
     THEN answer(400, {}, <<>>)
     ELSE IF ~Truthy(existing) THEN answer(302, {}, <<fresh>>)
     ELSE IF conflicts # {} THEN answer(409, conflicts, <<>>)
     ELSE IF NULL \in {existing.amount, existing.currency, existing.customer_id}
     THEN answer(302, {}, <<backfill>>)
     ELSE answer(302, {}, <<>>)

\* GET or POST /callbacks/complete-payment, callbacks.js:161-278, for a
\* return link that names no shop
completePaymentHandler(req) ==
  LET translated == mapReturnResult(req.result)
      placeholder == Call("createOrUpdatePayment",
                       Args(NULL, req.orderId, NULL, NULL, NULL, NULL, translated, NULL, TRUE))
      update == Call("setPaymentStatus",
                  Args(NULL, req.orderId, NULL, NULL, NULL, NULL, translated, req.txn, TRUE))
  IN IF req.orderId = NULL \/ req.result = NULL
     THEN Respond("complete_payment", req, 400, {}, <<>>)
     ELSE IF ~Truthy(Unawaited)
     THEN Respond("complete_payment", req, 200, {}, <<placeholder, update>>)
     ELSE Respond("complete_payment", req, 200, {}, <<update>>)

\* a row written through the ledger itself with its full key, as the payment
\* session of a shop would (payments.js:97)
ledgerWrite(a) ==
  Respond("ledger", Req(a.orderId, a.amount, a.currency, a.customerId, NULL, NULL), 0, {},
          <<Call("createOrUpdatePayment", a)>>)

RouteAmounts == {"10.00", "15.50"}

PayInitReqs ==
  { Req("o1", am, "USD", cu, NULL, NULL) : am \in RouteAmounts, cu \in {"c1", "c2", NULL} }

AppProxyReqs ==
  { Req("o1", am, "USD", "c1", NULL, NULL) : am \in RouteAmounts \cup {NULL} }

\* every request with the merchant credentials set, one without
PayInitCalls ==
  {<<req, TRUE>> : req \in PayInitReqs}
    \cup {<<Req("o1", "10.00", "USD", "c1", NULL, NULL), FALSE>>}

\* the signature the platform puts on the query of req
ProxySigned(req) == HmacHex(ProxySharedSecret, proxyPairs(req))

\* a signature made with another key, one of another length, none
BadProxySignatures(req) ==
  { HmacHex("guess", proxyPairs(req)), [len |-> 10, upper |-> FALSE, mac |-> <<"guess">>],
    EmptyText }

\* every request with a valid signature, one with each kind of bad signature
AppProxyCalls ==
  {<<req, ProxySigned(req)>> : req \in AppProxyReqs}
    \cup {<<Req("o1", "10.00", "USD", "c1", NULL, NULL), sig>> :
             sig \in BadProxySignatures(Req("o1", "10.00", "USD", "c1", NULL, NULL))}

ReturnReqs ==
  { Req("o1", NULL, NULL, NULL, rs, NULL) : rs \in {"success", "fail", "cancel", NULL} }

RouteLedgerArgs ==
  { Args("s1", "o1", "p1", cu, am, IF am = NULL THEN NULL ELSE "USD", st, NULL, TRUE) :
      cu \in {NULL, "c1"}, am \in {NULL, "10.00"}, st \in {"initiated", "paid"} }

RouteNext ==
  \/ \E a \in RouteLedgerArgs : ledgerWrite(a)
  \/ \E c \in PayInitCalls : payInit(c[1], c[2])
  \/ \E c \in AppProxyCalls : appProxyInit(c[1], c[2])
  \/ \E req \in ReturnReqs : completePaymentHandler(req)
  \/ \E t \in TaskIds : sps_read(t)
  \/ \E t \in TaskIds : cou_read(t)
  \/ \E t \in TaskIds : cou_write(t)
  \/ \E t \in TaskIds : sps_write(t)
  \/ \E t \in TaskIds : ret_read(t)

RouteInit == InitWith(RouteMaxCalls)

RouteSpec == RouteInit /\ [][RouteNext]_vars

(* ------- PayInitSpec: POST /pay/init with bad and good requests ------- *)

PayInitMaxCalls == 2

\* one good request, and requests that miss a field, carry an amount that is
\* no number or a currency that is not three letters
PayInitBadReqs ==
  { Req("o1", "10.00", "usd", "c1", NULL, NULL),
    Req(NULL, "10.00", "USD", "c1", NULL, NULL),
    Req("o1", "10.00", NULL, "c1", NULL, NULL),
    Req("o1", "10.00", "USD", NULL, NULL, NULL),
    Req("o1", NULL, "USD", "c1", NULL, NULL),
    Req("o1", "abc", "USD", "c1", NULL, NULL),
    Req("o1", "10.00", "us ", "c1", NULL, NULL),
    Req("o1", "10.00", "DOLLAR", "c1", NULL, NULL) }

PayInitLedgerArgs ==
  { Args("s1", "o1", "p1", NULL, NULL, NULL, "pending", NULL, TRUE) }

PayInitNext ==
  \/ \E a \in PayInitLedgerArgs : ledgerWrite(a)
  \/ \E req \in PayInitBadReqs, env \in BOOLEAN : payInit(req, env)
  \/ \E t \in TaskIds : cou_read(t)
  \/ \E t \in TaskIds : cou_write(t)
  \/ \E t \in TaskIds : ret_read(t)

PayInitInit == InitWith(PayInitMaxCalls)

PayInitSpec == PayInitInit /\ [][PayInitNext]_vars

(* ------- ProxySpec: GET /app-proxy/init and its signature ------------- *)

ProxyMaxCalls == 2

ProxyReqs ==
  { Req("o1", am, "USD", "c1", NULL, NULL) : am \in {"10.00", "15.50"} }

\* for every request: the signature of its own query, the signature of the
\* query with another amount, the same digits in upper case, a signature
\* made with another key, signatures shorter and longer than a digest, none
ProxySignatures(req) ==
  { ProxySigned(q) : q \in ProxyReqs }
    \cup { [ProxySigned(req) EXCEPT !.upper = TRUE],
           HmacHex("guess", proxyPairs(req)),
           [len |-> 10, upper |-> FALSE, mac |-> <<"guess">>],
           [len |-> 65, upper |-> FALSE, mac |-> <<"guess">>],
           EmptyText }

ProxyCalls ==
  UNION { { <<req, sig>> : sig \in ProxySignatures(req) } : req \in ProxyReqs }

ProxyLedgerArgs ==
  { Args("s1", "o1", "p1", NULL, NULL, NULL, "pending", NULL, TRUE) }

ProxyNext ==
  \/ \E a \in ProxyLedgerArgs : ledgerWrite(a)
  \/ \E c \in ProxyCalls : appProxyInit(c[1], c[2])
  \/ \E t \in TaskIds : cou_read(t)
  \/ \E t \in TaskIds : cou_write(t)
  \/ \E t \in TaskIds : ret_read(t)

ProxyInit == InitWith(ProxyMaxCalls)

ProxySpec == ProxyInit /\ [][ProxyNext]_vars

(* ------- ReturnSpec: buyer returns with every kind of result ---------- *)

ReturnMaxCalls == 2

\* the result values of a return link, as extractReturnFields hands them on
\* (lower case; callbacks.js:68)
ReturnResults == {"success", "fail", "failure", "cancel", "error", "paid"}

ReturnResultReqs ==
  { Req("o1", NULL, NULL, NULL, rs, tx) : rs \in ReturnResults, tx \in {NULL, "t1"} }

ReturnLedgerArgs ==
  { Args("s1", "o1", "p1", NULL, NULL, NULL, "pending", NULL, TRUE) }

ReturnNext ==
  \/ \E a \in ReturnLedgerArgs : ledgerWrite(a)
  \/ \E req \in ReturnResultReqs : completePaymentHandler(req)
  \/ \E t \in TaskIds : sps_read(t)
  \/ \E t \in TaskIds : cou_read(t)
  \/ \E t \in TaskIds : cou_write(t)
  \/ \E t \in TaskIds : sps_write(t)
  \/ \E t \in TaskIds : ret_read(t)

ReturnInit == InitWith(ReturnMaxCalls)

ReturnSpec == ReturnInit /\ [][ReturnNext]_vars

(* ------------- the gateway notify and its signature check -------------- *)

\* CallbackSpec: buyer returns and gateway notifies for one order
CallbackMaxCalls == 4

\* HMAC-SHA256 of `body` under `secret`, as a value that is equal for equal
\* secret and body only (crypto.createHmac(...).update(...).digest(...))
HmacSha256(secret, body) == <<secret, body>>

\* no header of that name on the request
NoHeader == <<>>

\* maybeVerifyRocketGateSignature that lets a request without the signature
\* header through
maybeVerifyRocketGateSignature_failOpen(cfg, provided, rawBody) ==
  IF ~cfg.rgVerify THEN 0
  ELSE IF cfg.rgSecret = NULL THEN 500
  ELSE IF provided = NoHeader THEN 0
  ELSE IF rawBody = <<>> THEN 400
  ELSE IF provided # HmacSha256(cfg.rgSecret, rawBody) THEN 400
  ELSE 0

\* maybeVerifyRocketGateSignature, callbacks.js:24-57 : the response code it
\* ends the request with, or 0 when it calls next()
maybeVerifyRocketGateSignature(cfg, provided, rawBody) ==
  IF ~cfg.rgVerify THEN 0
  ELSE IF cfg.rgSecret = NULL THEN 500
  ELSE IF provided = NoHeader THEN 400
  ELSE IF rawBody = <<>> THEN 400
  ELSE IF provided # HmacSha256(cfg.rgSecret, rawBody) THEN 400
  ELSE 0

\* mapNotifyStatus, callbacks.js:130-146
mapNotifyStatus(statusRaw) ==
  CASE statusRaw \in {"approved", "captured", "settled", "paid"} -> "paid"
    [] statusRaw = "refunded" -> "refunded"
    [] statusRaw = "voided" -> "voided"
    [] statusRaw \in {"chargeback", "disputed"} -> "chargeback"
    [] statusRaw \in {"decline", "declined", "failed"} -> "declined"
    [] statusRaw = "error" -> "error"
    [] OTHER -> "unknown"

\* a notify request: the JSON body fields, the RocketGate signature header,
\* and the Shoplazza signature and timestamp headers
NotifyReq(orderId, status, txn, sig, spzSig, ts) ==
  [ orderId |-> orderId, status |-> status, txn |-> txn, sig |-> sig,
    spzSig |-> spzSig, ts |-> ts ]

\* the raw JSON body of a notify request
NotifyBody(nreq) == <<nreq.orderId, nreq.status, nreq.txn>>

\* the environment a request is served under: VERIFY_ROCKETGATE_NOTIFY_SIGNATURE,
\* ROCKETGATE_NOTIFY_SIGNATURE_SECRET (with its header name), and
\* app.locals.verifySignatures
Env(rgVerify, rgSecret, spzVerify) ==
  [ rgVerify |-> rgVerify, rgSecret |-> rgSecret, spzVerify |-> spzVerify ]

\* POST /callbacks/notify, callbacks.js:290-321
notifyHandler(nreq, cfg) ==
  LET rawBody == NotifyBody(nreq)
      gate == maybeVerifyRocketGateSignature(cfg, nreq.sig, rawBody)
      mapped == mapNotifyStatus(nreq.status)
      entry(code) ==
        [ Served("notify", Req(nreq.orderId, NULL, NULL, NULL, nreq.status, nreq.txn), code, {})
            EXCEPT !.auth = [ cfg |-> cfg, sig |-> nreq.sig, spzSig |-> nreq.spzSig,
                              ts |-> nreq.ts, body |-> rawBody ] ]
      placeholder == Call("createOrUpdatePayment",
                       Args(NULL, nreq.orderId, NULL, NULL, NULL, NULL, "initiated", NULL, TRUE))
      update == Call("setPaymentStatus",
                  Args(NULL, nreq.orderId, NULL, NULL, NULL, NULL, mapped, nreq.txn, TRUE))
  IN IF gate # 0 THEN RespondWith(entry(gate), <<>>)
     ELSE IF nreq.orderId = NULL \/ nreq.status = NULL THEN RespondWith(entry(400), <<>>)
     ELSE IF ~Truthy(Unawaited) THEN RespondWith(entry(200), <<placeholder, update>>)
     ELSE RespondWith(entry(200), <<update>>)

RgSecret == "rg_secret"

SpzSecret == "spz_secret"

\* notifies served with every verification off
PlainNotifies ==
  { <<NotifyReq("o1", st, NULL, NoHeader, NoHeader, NULL), Env(FALSE, NULL, FALSE)>> :
      st \in {"approved", "declined", "bogus", NULL} }

\* an approved notify served with the RocketGate check on: signed with the
\* secret, signed with another key, signed for another body, unsigned; and
\* one served while no secret is configured
SignedNotifies ==
  LET body == <<"o1", "approved", "t1">>
  IN { <<NotifyReq("o1", "approved", "t1", sg, NoHeader, NULL), Env(TRUE, RgSecret, FALSE)>> :
         sg \in { HmacSha256(RgSecret, body), HmacSha256("guess", body),
                  HmacSha256(RgSecret, <<"o1", "declined", "t1">>), NoHeader } }
       \cup { <<NotifyReq("o1", "approved", "t1", HmacSha256(RgSecret, body), NoHeader, NULL),
                Env(TRUE, NULL, FALSE)>> }

\* an approved notify served with app.locals.verifySignatures on, carrying
\* the correct Shoplazza signature and a timestamp inside or outside the
\* tolerance
StampedNotifies ==
  LET body == <<"o1", "approved", NULL>>
  IN { <<NotifyReq("o1", "approved", NULL, NoHeader, HmacSha256(SpzSecret, body), ts),
         Env(FALSE, NULL, TRUE)>> : ts \in {"fresh", "stale"} }

NotifyCalls == PlainNotifies \cup SignedNotifies \cup StampedNotifies

\* the notifies of CallbackSpec: no verification, statuses that map to paid,
\* to declined and to nothing
CallbackNotifies ==
  { <<NotifyReq("o1", st, NULL, NoHeader, NoHeader, NULL), Env(FALSE, NULL, FALSE)>> :
      st \in {"approved", "declined", "bogus"} }

CallbackLedgerArgs ==
  { Args("s1", "o1", "p1", "c1", "10.00", "USD", "initiated", NULL, TRUE) }

CallbackReturnReqs ==
  { Req("o1", NULL, NULL, NULL, rs, NULL) : rs \in {"success", "fail", "cancel"} }

CallbackNext ==
  \/ \E a \in CallbackLedgerArgs : ledgerWrite(a)
  \/ payInit(Req("o1", "10.00", "USD", "c1", NULL, NULL), TRUE)
  \/ \E req \in CallbackReturnReqs : completePaymentHandler(req)
  \/ \E c \in CallbackNotifies : notifyHandler(c[1], c[2])
  \/ \E t \in TaskIds : sps_read(t)
  \/ \E t \in TaskIds : cou_read(t)
  \/ \E t \in TaskIds : cou_write(t)
  \/ \E t \in TaskIds : sps_write(t)
  \/ \E t \in TaskIds : ret_read(t)

CallbackInit == InitWith(CallbackMaxCalls)

CallbackSpec == CallbackInit /\ [][CallbackNext]_vars

(* ---- NotifySpec: notifies under every setting of the signature checks --- *)

NotifyMaxCalls == 2

NotifyNext ==
  \/ \E a \in CallbackLedgerArgs : ledgerWrite(a)
  \/ \E c \in NotifyCalls : notifyHandler(c[1], c[2])
  \/ \E t \in TaskIds : sps_read(t)
  \/ \E t \in TaskIds : cou_read(t)
  \/ \E t \in TaskIds : cou_write(t)
  \/ \E t \in TaskIds : sps_write(t)
  \/ \E t \in TaskIds : ret_read(t)

NotifyInit == InitWith(NotifyMaxCalls)

NotifySpec == NotifyInit /\ [][NotifyNext]_vars

(* ---- OrderSpec: the order API beside the callbacks -------------------- *)

OrderMaxCalls == 4

\* a row of the orders table (orders.js:19-34): the key, the status and the
\* gateway transaction id
OrderRow(orderId, status, txn) ==
  [ order_id |-> orderId, status |-> status, rocketgate_txn |-> txn ]

\* getOrder's SELECT (orders.js:84-92): the row of that id, or none
getOrder(rows, orderId) ==
  IF \E o \in rows : o.order_id = orderId
  THEN CHOOSE o \in rows : o.order_id = orderId
  ELSE NoRow

\* POST /order, order.js:30-51 : createOrder is not awaited
postOrder(req) ==
  IF req.orderId = NULL \/ req.amount = NULL \/ req.currency = NULL
  THEN Respond("order_post", req, 400, {}, <<>>)
  ELSE Respond("order_post", req, 201, {},
         << Call("createOrder",
              Args(NULL, req.orderId, NULL, req.customerId, req.amount, req.currency,
                   "pending", NULL, FALSE)) >>)

\* GET /order/:id, order.js:65-69 : `row` is the promise of getOrder, and the
\* body sent is that promise as JSON, an object without a status
getOrderRoute(orderId) ==
  LET row == Unawaited
      req == Req(orderId, NULL, NULL, NULL, NULL, NULL)
  IN IF ~Truthy(row) THEN Respond("order_get", req, 404, {}, <<>>)
     ELSE RespondWith([Served("order_get", req, 200, {}) EXCEPT !.status = row.status], <<>>)

\* PATCH /order/:id, order.js:103-119 : neither getOrder nor updateOrder is
\* awaited
patchOrder(req) ==
  LET exists == Unawaited
      updated == Unawaited
  IN IF ~Truthy(exists) THEN Respond("order_patch", req, 404, {}, <<>>)
     ELSE RespondWith([Served("order_patch", req, 200, {}) EXCEPT !.status = updated.status],
            << Call("updateOrder",
                 Args(NULL, req.orderId, NULL, NULL, NULL, NULL, req.result, req.txn, FALSE)) >>)

\* createOrder resumes at its INSERT (orders.js:79); order_id is the primary
\* key, so a second row of the same id is refused and the promise rejects
ord_insert(t) ==
  /\ tasks[t].pc = "ord_insert"
  /\ IF \E o \in orders : o.order_id = tasks[t].args.orderId
     THEN /\ Settle(t, NoRow, NoRow, "error")
          /\ UNCHANGED orders
     ELSE /\ orders' = orders \cup {OrderRow(tasks[t].args.orderId, tasks[t].args.status, NULL)}
          /\ tasks' = [tasks EXCEPT ![t].pc = "ord_ret"]
          /\ UNCHANGED last
  /\ UNCHANGED <<payments, nextId, http, budget, appVars>>

\* updateOrder resumes at its UPDATE (orders.js:100-107): only the fields
\* given are set
ord_update(t) ==
  /\ tasks[t].pc = "ord_update"
  /\ orders' = { IF o.order_id = tasks[t].args.orderId
                 THEN OrderRow(o.order_id,
                        IF tasks[t].args.status # NULL THEN tasks[t].args.status ELSE o.status,
                        IF tasks[t].args.rocketgateTxnId # NULL
                        THEN tasks[t].args.rocketgateTxnId ELSE o.rocketgate_txn)
                 ELSE o : o \in orders }
  /\ tasks' = [tasks EXCEPT ![t].pc = "ord_ret"]
  /\ UNCHANGED <<payments, nextId, last, http, budget, appVars>>

\* createOrder and updateOrder end with `return await getOrder(orderId)`
\* (orders.js:81, 109)
ord_ret(t) ==
  /\ tasks[t].pc = "ord_ret"
  /\ Settle(t, NoRow, getOrder(orders, tasks[t].args.orderId), "ok")
  /\ UNCHANGED <<payments, nextId, http, budget, orders, appVars>>

OrderPosts ==
  { Req("o1", am, "USD", "c1", NULL, NULL) : am \in {"10.00", NULL} }

OrderPatches == { Req("o1", NULL, NULL, NULL, "paid", "t1") }

OrderNext ==
  \/ \E a \in CallbackLedgerArgs : ledgerWrite(a)
  \/ \E req \in OrderPosts : postOrder(req)
  \/ getOrderRoute("o1")
  \/ \E req \in OrderPatches : patchOrder(req)
  \/ notifyHandler(NotifyReq("o1", "approved", NULL, NoHeader, NoHeader, NULL),
                   Env(FALSE, NULL, FALSE))
  \/ completePaymentHandler(Req("o1", NULL, NULL, NULL, "fail", NULL))
  \/ \E t \in TaskIds : sps_read(t)
  \/ \E t \in TaskIds : cou_read(t)
  \/ \E t \in TaskIds : cou_write(t)
  \/ \E t \in TaskIds : sps_write(t)
  \/ \E t \in TaskIds : ret_read(t)
  \/ \E t \in TaskIds : ord_insert(t)
  \/ \E t \in TaskIds : ord_update(t)
  \/ \E t \in TaskIds : ord_ret(t)

OrderInit == InitWith(OrderMaxCalls)

OrderSpec == OrderInit /\ [][OrderNext]_vars

(* ---- SessionSpec: embedded launch and the app session cookie ---------- *)

SessionMaxCalls == 3

\* the clock stops here; one tick of `now` is ten minutes
MaxNow == 3

\* SESSION_TTL_MINUTES (default 20), in ticks
SESSION_TTL == 2

\* what the ledger, the callbacks and the order API own
ledgerVars == <<payments, nextId, tasks, last, orders>>

\* a request of the embedded app and the response it got, as an entry of http
Answer(route, req, code, body) ==
  [ route |-> route, req |-> req, code |-> code, body |-> body ]

\* the response is sent
Reply(entry) ==
  /\ budget > 0
  /\ budget' = budget - 1
  /\ http' = Append(http, entry)

\* time passes
Tick ==
  /\ now < MaxNow
  /\ now' = now + 1
  /\ UNCHANGED <<ledgerVars, http, budget, OAUTH_STATES, shops, rg_settings>>

\* String.prototype.toLowerCase on a hex text
hexToLowerCase(text) == [text EXCEPT !.upper = FALSE]

\* String.prototype.toLowerCase on the shop names used here
toLowerCase(str) == IF str = "S1.MYSHOPLAZZA.COM" THEN "s1.myshoplazza.com" ELSE str

\* the keys a launch query can carry besides hmac, in the order of
\* Array.prototype.sort
LaunchKeyOrder == <<"install_from", "shop", "store_id">>

\* the canonical string of verifyLaunchHmac (shopHost.js:172-181): key=value
\* of every key but hmac, sorted by key
launchPairs(query) ==
  LET keys == SelectSeq(LaunchKeyOrder, LAMBDA k : k \in DOMAIN query)
  IN [i \in 1..Len(keys) |-> <<keys[i], query[keys[i]]>>]

\* verifyLaunchHmac that gives an empty hmac the reason of a wrong one
verifyLaunchHmac_oneReason(query, clientSecret) ==
  IF clientSecret = NULL THEN [ok |-> FALSE, reason |-> "missing"]
  ELSE LET provided == IF "hmac" \in DOMAIN query THEN query["hmac"] ELSE EmptyText
       IN IF provided = EmptyText THEN [ok |-> FALSE, reason |-> "mismatch"]
          ELSE LET calc == HmacHex(clientSecret, launchPairs(query))
                   B == hexToLowerCase(provided)
               IN IF calc.len = B.len /\ calc = B THEN [ok |-> TRUE, reason |-> NULL]
                  ELSE [ok |-> FALSE, reason |-> "mismatch"]

\* verifyLaunchHmac, shopHost.js:166-189
verifyLaunchHmac(query, clientSecret) ==
  IF clientSecret = NULL THEN [ok |-> FALSE, reason |-> "missing"]
  ELSE LET provided == IF "hmac" \in DOMAIN query THEN query["hmac"] ELSE EmptyText
       IN IF provided = EmptyText THEN [ok |-> FALSE, reason |-> "no_hmac"]
          ELSE LET calc == HmacHex(clientSecret, launchPairs(query))
                   B == hexToLowerCase(provided)
               IN IF calc.len = B.len /\ calc = B THEN [ok |-> TRUE, reason |-> NULL]
                  ELSE [ok |-> FALSE, reason |-> "mismatch"]

\* JSON.stringify of the session payload, and b64u of a text
b64u(text) == <<"b64u", text>>

ub64u(b) == b[2]

\* APP_SESSION_SECRET
AppSessionSecret == "app_secret"

\* sign, shopHost.js:47-49
sign(base64Payload, secret) == HmacHex(secret, base64Payload)

\* no cookie of that name on the request
NoCookie == <<>>

\* issueAppSession, shopHost.js:51-66 : the cookie value, as the parts a
\* split at '.' gives
issueAppSession(shop, storeId, clock) ==
  LET exp == clock + SESSION_TTL
      payload == <<"json", [shop |-> shop, storeId |-> storeId, exp |-> exp]>>
      b == b64u(payload)
  IN <<b, sign(b, AppSessionSecret)>>

\* readAppSession, shopHost.js:68-85 : the payload, null, or the RangeError of
\* crypto.timingSafeEqual on buffers of different length
readAppSession(value, clock) ==
  IF value = NoCookie THEN [out |-> "null", payload |-> NULL]
  ELSE IF Len(value) < 2 THEN [out |-> "null", payload |-> NULL]
  ELSE LET b == value[1]
           sig == value[2]
           expected == sign(b, AppSessionSecret)
       IN IF expected.len # sig.len THEN [out |-> "throw", payload |-> NULL]
          ELSE IF expected # sig THEN [out |-> "null", payload |-> NULL]
          ELSE IF ub64u(b)[1] # "json" THEN [out |-> "null", payload |-> NULL]
          ELSE LET payload == ub64u(b)[2]
               IN IF payload.shop = "" \/ payload.exp = 0 \/ clock > payload.exp
                  THEN [out |-> "null", payload |-> NULL]
                  ELSE [out |-> "session", payload |-> payload]

\* requireAppSession, shopHost.js:88-98, in front of a handler: 0 when the
\* handler runs, 401 when there is no session, 500 when readAppSession throws
\* (error handler of index.js:160-164)
requireAppSession(value, clock, required) ==
  IF ~required THEN 0
  ELSE LET sess == readAppSession(value, clock)
       IN IF sess.out = "throw" THEN 500
          ELSE IF sess.out = "session" THEN 0
          ELSE 401

\* GET /app-start, appLaunch.js:15-36
appStart(query, env) ==
  LET result == IF env.verifyEmbed THEN verifyLaunchHmac(query, env.clientSecret)
                ELSE [ok |-> TRUE, reason |-> NULL]
      shop == IF "shop" \in DOMAIN query THEN toLowerCase(query["shop"]) ELSE ""
      store_id == IF "store_id" \in DOMAIN query THEN query["store_id"] ELSE NULL
      req == [query |-> query, env |-> env, at |-> now]
  IN /\ IF ~result.ok
        THEN Reply(Answer("app_start", req, 401, [reason |-> result.reason, cookie |-> NoCookie]))
        ELSE Reply(Answer("app_start", req, 302,
                     [reason |-> NULL, cookie |-> issueAppSession(shop, store_id, now)]))
     /\ UNCHANGED <<ledgerVars, appVars>>

\* GET /app-api/whoami, appApi.js:218-224, behind requireAppSession
whoami(cookie, required) ==
  LET gate == requireAppSession(cookie, now, required)
      sess == readAppSession(cookie, now)
      req == [cookie |-> cookie, required |-> required, at |-> now]
  IN /\ IF gate = 401 THEN Reply(Answer("whoami", req, 401, [error |-> "no_session"]))
        ELSE IF gate = 500 THEN Reply(Answer("whoami", req, 500, [error |-> "exception"]))
        ELSE Reply(Answer("whoami", req, 200,
                     IF required
                     THEN [shop |-> sess.payload.shop, storeId |-> sess.payload.storeId]
                     ELSE [shop |-> NULL, storeId |-> NULL]))
     /\ UNCHANGED <<ledgerVars, appVars>>

\* SHOPLAZZA_CLIENT_SECRET
ClientSecret == "client_secret"

LaunchEnv(verifyEmbed, clientSecret) ==
  [verifyEmbed |-> verifyEmbed, clientSecret |-> clientSecret]

\* the launch query the platform signs
SignedLaunch == [k \in {"shop", "store_id", "install_from"} |->
                   CASE k = "shop" -> "s1.myshoplazza.com"
                     [] k = "store_id" -> "77"
                     [] OTHER -> "admin"]

\* q with its hmac parameter set to h
WithHmac(q, h) == [k \in DOMAIN q \cup {"hmac"} |-> IF k = "hmac" THEN h ELSE q[k]]

\* the launches: signed by the platform (lower and upper case hex), signed
\* over the keys in the order they were sent, signed with another key, signed
\* for another shop, with an empty hmac, without hmac; one served while no
\* client secret is configured, and one while the check is switched off
LaunchCalls ==
  LET good == HmacHex(ClientSecret, launchPairs(SignedLaunch))
      unsorted == HmacHex(ClientSecret, << <<"shop", "s1.myshoplazza.com">>, <<"store_id", "77">>,
                                           <<"install_from", "admin">> >>)
      otherShop == [SignedLaunch EXCEPT !["shop"] = "s2.myshoplazza.com"]
  IN { <<WithHmac(SignedLaunch, h), LaunchEnv(TRUE, ClientSecret)>> :
         h \in { good, [good EXCEPT !.upper = TRUE], unsorted,
                 HmacHex("guess", launchPairs(SignedLaunch)), EmptyText } }
     \cup { <<WithHmac(otherShop, good), LaunchEnv(TRUE, ClientSecret)>>,
            <<SignedLaunch, LaunchEnv(TRUE, ClientSecret)>>,
            <<SignedLaunch, LaunchEnv(TRUE, NULL)>>,
            <<[k \in {"install_from"} |-> "admin"], LaunchEnv(FALSE, ClientSecret)>> }

\* the cookies the server has issued so far
IssuedCookies ==
  { http[i].body.cookie : i \in {j \in 1..Len(http) : http[j].route = "app_start" /\ http[j].code = 302} }

\* cookie values a client can make up from a cookie c it holds: the payload
\* alone, the payload with a signature of the right length made with another
\* key, with a truncated signature, a payload for another shop and a later
\* expiry under the old signature, and text that is not JSON
ForgedFrom(c) ==
  LET other == b64u(<<"json", [shop |-> "s2.myshoplazza.com", storeId |-> NULL, exp |-> MaxNow + SESSION_TTL]>>)
      junk == b64u(<<"text", "garbage">>)
  IN { <<c[1]>>,
       <<c[1], HmacHex("guess", c[1])>>,
       <<c[1], [c[2] EXCEPT !.len = 10]>>,
       <<other, c[2]>>,
       <<junk, HmacHex("guess", junk)>> }

SessionCookies ==
  IssuedCookies \cup UNION {ForgedFrom(c) : c \in IssuedCookies} \cup {NoCookie}

SessionNext ==
  \/ \E c \in LaunchCalls : appStart(c[1], c[2])
  \/ \E cookie \in SessionCookies : whoami(cookie, TRUE)
  \/ Tick

SessionInit == InitWith(SessionMaxCalls)

SessionSpec == SessionInit /\ [][SessionNext]_vars

(* ---- OAuthSpec: the install flow and its state store ----------------- *)

OAuthMaxCalls == 3

\* maxAge of the oauth_state cookie (auth.js:112), ten minutes, in ticks
OAUTH_COOKIE_MAX_AGE == 1

\* normalizeShopHost, auth.js:26-45, on the shop parameters used here: a
\* slug gets the base domain, a host of another domain is refused
normalizeShopHost(input) ==
  CASE input = "s1" -> "s1.myshoplaza.com"
    [] input \in {"s1.myshoplazza.com", "s2.myshoplazza.com", "s1.myshoplaza.com"} -> input
    [] OTHER -> NULL

\* a callback without state parameter
NoState == <<>>

\* crypto.randomUUID(): a value never returned before
randomUUID == << Cardinality({i \in 1..Len(http) : http[i].route = "auth_start" /\ http[i].code = 302}) + 1 >>

\* GET /auth/start, auth.js:76-129 ; redirect URL and client id are configured
authStart(shopParam) ==
  LET shopHost == normalizeShopHost(shopParam)
      state == randomUUID
      req == [shop |-> shopParam, at |-> now]
  IN /\ IF shopHost = NULL
        THEN /\ Reply(Answer("auth_start", req, 400, [cookie |-> NoCookie, state |-> NoState]))
             /\ UNCHANGED OAUTH_STATES
        ELSE /\ OAUTH_STATES' = OAUTH_STATES \cup {[state |-> state, shop |-> shopHost, ts |-> now]}
             /\ Reply(Answer("auth_start", req, 302,
                        [cookie |-> [state |-> state, shop |-> shopHost], state |-> state]))
     /\ UNCHANGED <<ledgerVars, now, shops, rg_settings>>

\* the columns of the shops table, connection.js:138-149
ShopsColumns == {"shop", "access_token", "scope", "installed_at", "updated_at"}

\* upsertShop, shops.js:26-52 : the table afterwards, or the error of a
\* statement that names a column the table does not have
upsertShop(rows, shop, accessToken, scope) ==
  LET named == {"shop_domain", "access_token", "scopes", "uninstalled_at", "updated_at"}
  IN IF shop = NULL \/ accessToken = NULL THEN [out |-> "throw", rows |-> rows]
     ELSE IF ~(named \subseteq ShopsColumns) THEN [out |-> "throw", rows |-> rows]
     ELSE [out |-> "ok",
           rows |-> {r \in rows : r.shop # shop}
                      \cup {[shop |-> shop, access_token |-> accessToken, scope |-> scope]}]

\* registerWebhooksForShop, auth.js:266-289 ; `answer` is what the shop's
\* webhook endpoint does: it accepts, answers an HTTP error, or the
\* connection fails
registerWebhooksForShop(answer) == IF answer = "ok" THEN "ok" ELSE "throw"

\* GET /auth/callback, auth.js:137-259 ; `exchange` is what the shop's token
\* endpoint answers: an access token, or an HTTP error; `hooks` is what its
\* webhook endpoint does when the handler calls it
authCallback(q, cookie, exchange, hooks) ==
  LET shop == normalizeShopHost(q.shop)
      request(called) ==
        [state |-> q.state, shop |-> q.shop, cookie |-> cookie, at |-> now,
         exchange |-> exchange, hooks |-> IF called THEN hooks ELSE "not_called"]
      req == request(FALSE)
      registered == registerWebhooksForShop(hooks)
      serverState == {e \in OAUTH_STATES : e.state = q.state}
      byServer == \E e \in serverState : e.shop = shop
      byCookie == cookie # NoCookie /\ cookie.state = q.state /\ cookie.shop = shop
      saved == upsertShop(shops, shop, exchange.access_token, exchange.scope)
      refuse(code) ==
        /\ Reply(Answer("auth_callback", req, code,
                   [exchanged |-> FALSE, installed |-> FALSE, webhooks |-> FALSE]))
        /\ UNCHANGED <<OAUTH_STATES, shops>>
  IN /\ IF shop = NULL \/ q.state = NoState THEN refuse(400)
        ELSE IF ~byServer /\ ~byCookie THEN refuse(400)
        ELSE /\ OAUTH_STATES' = IF byServer THEN OAUTH_STATES \ serverState ELSE OAUTH_STATES
             /\ IF exchange.access_token = NULL
                THEN /\ Reply(Answer("auth_callback", req, 502,
                                [exchanged |-> TRUE, installed |-> FALSE, webhooks |-> FALSE]))
                     /\ UNCHANGED shops
                ELSE /\ shops' = saved.rows
                     /\ Reply(Answer("auth_callback", request(TRUE), 302,
                                [exchanged |-> TRUE, installed |-> TRUE,
                                 webhooks |-> registered = "ok"]))
     /\ UNCHANGED <<ledgerVars, now, rg_settings>>

\* the shop parameters of /auth/start: a shop, and a host of another domain
OAuthShops == {"s1.myshoplazza.com", "evil.example.com"}

\* the state parameters a callback can carry: the state issued first, and one
\* that was never issued
CallbackStates == {<<1>>, <<99>>}

\* the oauth_state cookies a callback can carry: none, the ones /auth/start
\* has set, and one made up by the client
CallbackCookies ==
  {NoCookie}
    \cup { http[i].body.cookie : i \in {j \in 1..Len(http) : http[j].route = "auth_start" /\ http[j].code = 302} }
    \cup { [state |-> <<99>>, shop |-> "s2.myshoplazza.com"] }

\* what the token endpoint answers
Exchanges ==
  { [access_token |-> "tok1", scope |-> "read"], [access_token |-> NULL, scope |-> NULL] }

\* what the webhook endpoint does
WebhookAnswers == {"ok", "http_error", "reject"}

OAuthNext ==
  \/ \E shopParam \in OAuthShops : authStart(shopParam)
  \/ \E st \in CallbackStates, sh \in {"s1.myshoplazza.com", "s2.myshoplazza.com"},
        cookie \in CallbackCookies, ex \in Exchanges, hooks \in WebhookAnswers :
       authCallback([state |-> st, shop |-> sh], cookie, ex, hooks)
  \/ Tick

OAuthInit == InitWith(OAuthMaxCalls)

OAuthSpec == OAuthInit /\ [][OAuthNext]_vars

(* ---- OutboundSpec: the platform calls attached to a primary flow ------ *)

OutboundMaxCalls == 4

\* getShop, shops.js:58-74 : the access token of the shop's row, none when
\* there is no row, or the error of a statement that names a column the
\* table does not have
getShop(rows, shop) ==
  LET named == {"shop_domain", "access_token", "scopes", "installed_at", "updated_at"}
      found == {r \in rows : r.shop = toLowerCase(shop)}
  IN IF ~(named \subseteq ShopsColumns) THEN [out |-> "throw", accessToken |-> NULL]
     ELSE IF found = {} THEN [out |-> "ok", accessToken |-> NULL]
     ELSE [out |-> "ok", accessToken |-> (CHOOSE r \in found : TRUE).access_token]

\* the notification of callbacks.js:200-265 without its try/catch
notifyCompletePayment_uncaught(shop, appId, fetched) ==
  IF shop = NULL \/ appId = NULL
  THEN [out |-> "done", completeNotified |-> FALSE, fetched |-> "not_called"]
  ELSE IF getShop(shops, shop).out = "throw"
  THEN [out |-> "throw", completeNotified |-> FALSE, fetched |-> "not_called"]
  ELSE IF fetched = "reject"
  THEN [out |-> "throw", completeNotified |-> FALSE, fetched |-> fetched]
  ELSE [out |-> "done", completeNotified |-> fetched = "ok", fetched |-> fetched]

\* the notification of the platform's complete-payment endpoint,
\* callbacks.js:200-265 ; `fetched` is what the endpoint does when it is
\* called: it accepts, answers an HTTP error, or the connection fails
notifyCompletePayment(shop, appId, fetched) ==
  IF shop = NULL \/ appId = NULL
  THEN [out |-> "done", completeNotified |-> FALSE, fetched |-> "not_called"]
  ELSE IF getShop(shops, shop).out = "throw"
  THEN [out |-> "done", completeNotified |-> FALSE, fetched |-> "not_called"]
  ELSE IF fetched = "reject"
  THEN [out |-> "done", completeNotified |-> FALSE, fetched |-> fetched]
  ELSE [out |-> "done", completeNotified |-> fetched = "ok", fetched |-> fetched]

\* GET or POST /callbacks/complete-payment, callbacks.js:161-278, for a
\* return link that may name a shop; appId is SHOPLAZZA_CLIENT_ID. A handler
\* that throws is answered 500 by the framework
completePaymentOfShop(req, shop, appId, fetched) ==
  LET translated == mapReturnResult(req.result)
      placeholder == Call("createOrUpdatePayment",
                       Args(NULL, req.orderId, NULL, NULL, NULL, NULL, translated, NULL, TRUE))
      update == Call("setPaymentStatus",
                  Args(NULL, req.orderId, NULL, NULL, NULL, NULL, translated, req.txn, TRUE))
      notified == notifyCompletePayment(shop, appId, fetched)
      entry(code) ==
        [ route |-> "complete_payment", orderId |-> req.orderId, amount |-> req.amount,
          currency |-> req.currency, customerId |-> req.customerId, result |-> req.result,
          code |-> code, conflicts |-> {}, status |-> NULL, auth |-> <<>>,
          shop |-> shop, fetched |-> notified.fetched,
          completeNotified |-> notified.completeNotified ]
      code == IF notified.out = "throw" THEN 500 ELSE 200
  IN IF req.orderId = NULL \/ req.result = NULL
     THEN RespondWith(entry(400), <<>>)
     ELSE IF ~Truthy(Unawaited)
     THEN RespondWith(entry(code), <<placeholder, update>>)
     ELSE RespondWith(entry(code), <<update>>)

\* what the complete-payment endpoint does
FetchAnswers == {"ok", "http_error", "reject"}

OutboundReturnReqs ==
  { Req("o1", NULL, NULL, NULL, rs, NULL) : rs \in {"success", "fail"} }

OutboundLedgerArgs ==
  { Args("s1.myshoplazza.com", "o1", "p1", NULL, NULL, NULL, "pending", NULL, TRUE) }

OutboundNext ==
  \/ \E a \in OutboundLedgerArgs : ledgerWrite(a)
  \/ \E req \in OutboundReturnReqs, shop \in {"s1.myshoplazza.com", NULL},
        fetched \in FetchAnswers :
       completePaymentOfShop(req, shop, "app1", fetched)
  \/ \E t \in TaskIds : sps_read(t)
  \/ \E t \in TaskIds : cou_read(t)
  \/ \E t \in TaskIds : cou_write(t)
  \/ \E t \in TaskIds : sps_write(t)
  \/ \E t \in TaskIds : ret_read(t)
  \/ authStart("s1.myshoplazza.com")
  \/ \E cookie \in CallbackCookies, ex \in Exchanges, hooks \in WebhookAnswers :
       authCallback([state |-> <<1>>, shop |-> "s1.myshoplazza.com"], cookie, ex, hooks)

OutboundInit == InitWith(OutboundMaxCalls)

OutboundSpec == OutboundInit /\ [][OutboundNext]_vars

(* ---- SettingsSpec: the gateway settings of a shop --------------------- *)

SettingsMaxCalls == 3

\* canonicalShopHost, shopHost.js:5-34, on the shop names used here
canonicalShopHost(input) ==
  CASE input \in {"s1", "s1.myshoplazza.com", "s1.myshoplaza.com"} -> "s1.myshoplazza.com"
    [] input \in {"s2", "s2.myshoplazza.com", "s2.myshoplaza.com"} -> "s2.myshoplazza.com"
    [] OTHER -> NULL

\* String.prototype.trim on the key texts used here
trim(str) ==
  CASE str = " k2 " -> "k2"
    [] str = "   " -> ""
    [] OTHER -> str

\* normalizeMode, rgSettings.js:43-49
normalizeMode(m) == IF m \in {"live", "LIVE", " live "} THEN "live" ELSE "test"

\* no row of that key
NoSettings == [shop |-> NULL, merchantId |-> NULL, merchantKey |-> NULL, mode |-> NULL]

\* getRgSettings, rgSettings.js:55-93 : the row of the canonical host, else
\* the row of the legacy host, else none
getRgSettings(rows, shop) ==
  LET canonical == canonicalShopHost(shop)
      legacy == IF canonical = "s1.myshoplazza.com" THEN "s1.myshoplaza.com"
                ELSE IF canonical = "s2.myshoplazza.com" THEN "s2.myshoplaza.com"
                ELSE NULL
      pick(host) == CHOOSE r \in rows : r.shop_domain = host
      public(r) == [shop |-> r.shop_domain, merchantId |-> r.merchant_id,
                    merchantKey |-> r.merchant_key, mode |-> r.mode]
  IN IF canonical = NULL THEN NoSettings
     ELSE IF \E r \in rows : r.shop_domain = canonical THEN public(pick(canonical))
     ELSE IF \E r \in rows : r.shop_domain = legacy THEN public(pick(legacy))
     ELSE NoSettings

\* upsertRgSettings that writes the key column on every save
upsertRgSettings_alwaysSetKey(rows, shop, merchantId, merchantKey, mode) ==
  LET shop_domain == canonicalShopHost(shop)
      keyTrim == IF merchantKey = NULL THEN NULL ELSE trim(merchantKey)
      hasNewKey == keyTrim # NULL /\ keyTrim # ""
      values == [shop_domain |-> shop_domain, merchant_id |-> merchantId,
                 merchant_key |-> IF hasNewKey THEN keyTrim ELSE NULL,
                 mode |-> normalizeMode(mode)]
  IN IF shop_domain = NULL THEN [out |-> "throw", rows |-> rows]
     ELSE [out |-> "ok", rows |-> {r \in rows : r.shop_domain # shop_domain} \cup {values}]

\* upsertRgSettings, rgSettings.js:99-139 : the table after the statement
upsertRgSettings(rows, shop, merchantId, merchantKey, mode) ==
  LET shop_domain == canonicalShopHost(shop)
      keyTrim == IF merchantKey = NULL THEN NULL ELSE trim(merchantKey)
      hasNewKey == keyTrim # NULL /\ keyTrim # ""
      values == [shop_domain |-> shop_domain, merchant_id |-> merchantId,
                 merchant_key |-> IF hasNewKey THEN keyTrim ELSE NULL,
                 mode |-> normalizeMode(mode)]
      doUpdateSet(r) == [r EXCEPT !.merchant_id = values.merchant_id,
                                  !.merchant_key = IF hasNewKey THEN values.merchant_key ELSE @,
                                  !.mode = values.mode]
  IN IF shop_domain = NULL THEN [out |-> "throw", rows |-> rows]
     ELSE IF \E r \in rows : r.shop_domain = shop_domain
     THEN [out |-> "ok",
           rows |-> {IF r.shop_domain = shop_domain THEN doUpdateSet(r) ELSE r : r \in rows}]
     ELSE [out |-> "ok", rows |-> rows \cup {values}]

\* the settings object without masking
maskMerchantKey_raw(row) == row

\* the settings object as the API sends it, appApi.js:95 and 149
maskMerchantKey(row) ==
  [row EXCEPT !.merchantKey = IF row.merchantKey # NULL THEN "********" ELSE ""]

\* GET /app-api/rg-settings, appApi.js:89-100, behind requireAppSession;
\* `stored` records the row the handler read; NoSettings stands for
\* `settings: null`
getRgSettingsRoute(cookie) ==
  LET gate == requireAppSession(cookie, now, TRUE)
      shop == readAppSession(cookie, now).payload.shop
      row == getRgSettings(rg_settings, shop)
      req(stored) == [cookie |-> cookie, at |-> now, stored |-> stored]
  IN /\ IF gate # 0
        THEN Reply(Answer("rg_settings_get", req(NoSettings), gate, [settings |-> NoSettings]))
        ELSE Reply(Answer("rg_settings_get", req(row), 200,
                     [settings |-> IF row # NoSettings THEN maskMerchantKey(row) ELSE NoSettings]))
     /\ UNCHANGED <<ledgerVars, appVars>>

\* POST /app-api/rg-settings, appApi.js:108-155, behind requireAppSession;
\* `before` and `stored` record the row of the shop before and after the save
postRgSettings(cookie, body, form) ==
  LET gate == requireAppSession(cookie, now, TRUE)
      shop == readAppSession(cookie, now).payload.shop
      rawKey == IF body.merchantKey # NULL THEN body.merchantKey
                ELSE IF body.merchantPassword # NULL THEN body.merchantPassword
                ELSE NULL
      merchantKey == IF rawKey # NULL /\ rawKey # "" /\ trim(rawKey) # "" THEN trim(rawKey) ELSE NULL
      done == upsertRgSettings(rg_settings, shop, body.merchantId, merchantKey, body.mode)
      saved == getRgSettings(done.rows, shop)
      req(stored) == [cookie |-> cookie, at |-> now, body |-> body, form |-> form,
                      before |-> getRgSettings(rg_settings, shop), stored |-> stored]
  IN /\ IF gate # 0
        THEN /\ Reply(Answer("rg_settings_post", [cookie |-> cookie, at |-> now, body |-> body,
                                                  form |-> form, before |-> NoSettings,
                                                  stored |-> NoSettings],
                             gate, [saved |-> NoSettings]))
             /\ UNCHANGED rg_settings
        ELSE IF done.out = "throw"
        THEN /\ Reply(Answer("rg_settings_post", req(NoSettings), 500, [saved |-> NoSettings]))
             /\ UNCHANGED rg_settings
        ELSE /\ rg_settings' = done.rows
             /\ IF form THEN Reply(Answer("rg_settings_post", req(saved), 303, [saved |-> NoSettings]))
                ELSE Reply(Answer("rg_settings_post", req(saved), 200,
                             [saved |-> maskMerchantKey(saved)]))
     /\ UNCHANGED <<ledgerVars, now, OAUTH_STATES, shops>>

\* the session cookies of two shops, and no cookie
SettingsCookies ==
  { issueAppSession("s1.myshoplazza.com", "77", 0), issueAppSession("s2", NULL, 0), NoCookie }

\* the bodies posted: the key omitted, empty, blank, given, given with
\* surrounding blanks, and given in the field of the HTML form
SettingsBodies ==
  { [merchantId |-> "m1", merchantKey |-> k, merchantPassword |-> NULL, mode |-> "live"] :
      k \in {NULL, "", "   ", "k1", " k2 "} }
    \cup { [merchantId |-> "m1", merchantKey |-> NULL, merchantPassword |-> "k3", mode |-> NULL] }

SettingsNext ==
  \/ \E cookie \in SettingsCookies : getRgSettingsRoute(cookie)
  \/ \E cookie \in SettingsCookies, body \in SettingsBodies, form \in BOOLEAN :
       postRgSettings(cookie, body, form)

SettingsInit == InitWith(SettingsMaxCalls)

SettingsSpec == SettingsInit /\ [][SettingsNext]_vars

(* ---- HostedPageSpec: the signed URL of the gateway's hosted page ------- *)

HostedMaxCalls == 2

\* parseBool, rocketgate.js:7-10
parseBool(v, def) ==
  IF v = NULL THEN def ELSE v \in {"1", "true", "TRUE", "yes", "on"}

\* the default path of the hosted page, as its segments
HostedPagePurchase == <<"hostedpage", "servlet", "HostedPagePurchase">>

\* getHostedPageBase, rocketgate.js:18-35 : a URL is its host and the
\* segments of its path; trailing and leading slashes carry no segment
getHostedPageBase(env) ==
  IF env.ROCKETGATE_HOSTED_BASE_URL.host # NULL
  THEN [host |-> env.ROCKETGATE_HOSTED_BASE_URL.host,
        path |-> env.ROCKETGATE_HOSTED_BASE_URL.path
                   \o env.ROCKETGATE_HOSTED_PATH]
  ELSE IF env.ROCKETGATE_ENV \in {"prod-secure", "production", "prod", "PRODUCTION"}
  THEN [host |-> "secure.rocketgate.com", path |-> HostedPagePurchase]
  ELSE [host |-> "dev-secure.rocketgate.com", path |-> HostedPagePurchase]

\* maybeAssertExpectedHost, rocketgate.js:41-57 : the error raised on a
\* mismatch is raised inside the try block whose catch clause is empty, so
\* the function returns normally in every case
maybeAssertExpectedHost(fullUrl, env) ==
  LET expected == env.ROCKETGATE_EXPECTED_HOST
      enforce == parseBool(env.ROCKETGATE_ENFORCE_EXPECTED_HOST, FALSE)
      host == fullUrl.base.host
      thrownInTry == host # expected /\ enforce
      caught == thrownInTry
  IN IF expected = NULL THEN "return"
     ELSE IF thrownInTry /\ ~caught THEN "throw"
     ELSE "return"

\* the signed fields joined in alphabetical order
canonicalStringToHash_sorted(signedParams) ==
  << <<"amount", signedParams.amount>>, <<"id", signedParams.id>>,
     <<"merch", signedParams.merch>>, <<"purchase", signedParams.purchase>>,
     <<"time", signedParams.time>> >>

\* canonicalStringToHash, rocketgate.js:64-67 : the text k=v&k=v... as the
\* sequence of its pairs
canonicalStringToHash(signedParams) ==
  << <<"id", signedParams.id>>, <<"merch", signedParams.merch>>,
     <<"amount", signedParams.amount>>, <<"purchase", signedParams.purchase>>,
     <<"time", signedParams.time>> >>

\* hmacSHA256, rocketgate.js:74-77 : the digest is known by its key, its
\* message and its encoding
hmacSHA256(message, secret, env) ==
  [ alg |-> "sha256", key |-> secret, msg |-> message,
    enc |-> IF env.ROCKETGATE_HASH_ENCODING \in {"hex", "HEX"} THEN "hex" ELSE "base64" ]

\* the value extra gives to key k, or the value v it had
Spread(k, v, extra) ==
  IF \E n \in 1..Len(extra) : extra[n][1] = k
  THEN extra[CHOOSE n \in 1..Len(extra) : extra[n][1] = k][2]
  ELSE v

\* the pairs of extra whose keys are not signed fields, in their order
RECURSIVE NewKeys(_)
NewKeys(extra) ==
  IF extra = <<>> THEN <<>>
  ELSE IF extra[1][1] \in {"id", "merch", "amount", "purchase", "time"}
  THEN NewKeys(Tail(extra))
  ELSE <<extra[1]>> \o NewKeys(Tail(extra))

\* new URLSearchParams({...signedParams, ...extra}), rocketgate.js:123-126
URLSearchParams(signedParams, extra) ==
  << <<"id", Spread("id", signedParams.id, extra)>>,
     <<"merch", Spread("merch", signedParams.merch, extra)>>,
     <<"amount", Spread("amount", signedParams.amount, extra)>>,
     <<"purchase", Spread("purchase", signedParams.purchase, extra)>>,
     <<"time", Spread("time", signedParams.time, extra)>> >> \o NewKeys(extra)

\* no URL
NoUrl == [base |-> [host |-> NULL, path |-> <<>>], params |-> <<>>]

\* buildHostedPageUrl, rocketgate.js:105-135 ; clock is Date.now() in
\* seconds
buildHostedPageUrl(o, env, clock) ==
  LET resolvedMerch == IF o.merch # NULL THEN o.merch ELSE env.ROCKETGATE_MERCHANT_ID
      resolvedSecret == IF o.hashSecret # NULL THEN o.hashSecret ELSE env.ROCKETGATE_HASH_SECRET
      base == getHostedPageBase(env)
      signedParams == [id |-> o.id, merch |-> resolvedMerch, amount |-> o.amount,
                       purchase |-> "true", time |-> clock]
      stringToHash == canonicalStringToHash(signedParams)
      hash == hmacSHA256(stringToHash, resolvedSecret, env)
      fullUrl == [base |-> base,
                  params |-> Append(URLSearchParams(signedParams, o.extra), <<"hash", hash>>)]
  IN IF resolvedMerch \in {NULL, ""} THEN [out |-> "throw", url |-> NoUrl]
     ELSE IF resolvedSecret \in {NULL, ""} THEN [out |-> "throw", url |-> NoUrl]
     ELSE IF maybeAssertExpectedHost(fullUrl, env) = "throw" THEN [out |-> "throw", url |-> NoUrl]
     ELSE [out |-> "return", url |-> fullUrl]

\* a hosted-page URL is built
BuildHostedPage(o, env) ==
  LET built == buildHostedPageUrl(o, env, now)
  IN /\ Reply(Answer("hosted_page", [options |-> o, env |-> env, at |-> now],
                     IF built.out = "return" THEN 200 ELSE 500, built))
     /\ UNCHANGED <<ledgerVars, appVars>>

\* the extra parameters the two callers pass (appApi.js:198-203,
\* paymentSession.js:142), and extras that name the signed field amount
HostedExtras ==
  { << <<"currency", "USD">>, <<"purchase", "true">>, <<"success", "ok-url">>, <<"fail", "fail-url">> >>,
    << <<"invoice", "ORD-9">>, <<"currency", "EUR">> >>,
    << <<"invoice", "ORD-9">>, <<"amount", "0.01">> >> }

\* the credentials a caller passes: none, both, or the merchant id only
HostedCredentials == { <<NULL, NULL>>, <<"m1", "k1">>, <<"m1", NULL>> }

HostedOptions ==
  { [id |-> id, merch |-> c[1], hashSecret |-> c[2], amount |-> amount, extra |-> extra] :
      id \in {"CUST-1", "CUST-2"}, c \in HostedCredentials,
      amount \in {"12.99", "5.00"}, extra \in HostedExtras }

\* an environment with nothing set but the credentials; an unset base URL
\* has no host and an unset path no segment
PlainEnv ==
  [ ROCKETGATE_HOSTED_BASE_URL |-> [host |-> NULL, path |-> <<>>],
    ROCKETGATE_HOSTED_PATH |-> <<>>,
    ROCKETGATE_ENV |-> NULL, ROCKETGATE_EXPECTED_HOST |-> NULL,
    ROCKETGATE_ENFORCE_EXPECTED_HOST |-> NULL, ROCKETGATE_HASH_ENCODING |-> NULL,
    ROCKETGATE_MERCHANT_ID |-> "m0", ROCKETGATE_HASH_SECRET |-> "k0" ]

\* the environments: plain; production with the matching expected host
\* enforced; development with the production host expected, enforced and
\* not enforced; an own base URL without credentials
HostedEnvs ==
  { PlainEnv,
    [PlainEnv EXCEPT !.ROCKETGATE_ENV = "production",
                     !.ROCKETGATE_EXPECTED_HOST = "secure.rocketgate.com",
                     !.ROCKETGATE_ENFORCE_EXPECTED_HOST = "true"],
    [PlainEnv EXCEPT !.ROCKETGATE_EXPECTED_HOST = "secure.rocketgate.com",
                     !.ROCKETGATE_ENFORCE_EXPECTED_HOST = "true"],
    [PlainEnv EXCEPT !.ROCKETGATE_EXPECTED_HOST = "secure.rocketgate.com",
                     !.ROCKETGATE_HASH_ENCODING = "HEX"],
    [PlainEnv EXCEPT !.ROCKETGATE_HOSTED_BASE_URL = [host |-> "pay.example.com", path |-> <<>>],
                     !.ROCKETGATE_HOSTED_PATH = <<"hp">>,
                     !.ROCKETGATE_ENFORCE_EXPECTED_HOST = "true",
                     !.ROCKETGATE_MERCHANT_ID = NULL,
                     !.ROCKETGATE_HASH_SECRET = NULL] }

HostedNext ==
  \/ \E o \in HostedOptions, env \in HostedEnvs : BuildHostedPage(o, env)
  \/ Tick

HostedInit == InitWith(HostedMaxCalls)

HostedPageSpec == HostedInit /\ [][HostedNext]_vars

(* ---- PaySessionSpec: POST /payments/session of the platform ----------- *)

PaySessionMaxCalls == 2

\* SHOPLAZZA_TS_TOLERANCE_SECONDS (300 s) in ticks of ten minutes: a
\* timestamp of an earlier tick is older than the tolerance
TS_TOLERANCE == 0

\* no timestamp header, and a timestamp header that is no number
NoTimestamp == -1

NotANumber == -2

\* createHmac('sha256', secret).update(raw).digest('base64'): 44 characters
\* that are equal for equal secret and body only
HmacBase64(secret, raw) == [len |-> 44, upper |-> FALSE, mac |-> <<secret, raw>>]

\* timingSafeEqualStr, shoplazzaAuth.js:103-108
timingSafeEqualStr(a, b) == IF a.len # b.len THEN FALSE ELSE a = b

\* verifyShoplazzaSignature that refuses a request without timestamp header
verifyShoplazzaSignature_requireTimestamp(cfg, sigHeader, tsHeader, rawBody, clock) ==
  IF cfg.secret = NULL THEN "throw"
  ELSE IF tsHeader = NoTimestamp THEN "false"
  ELSE IF tsHeader = NotANumber THEN "false"
  ELSE IF (IF clock >= tsHeader THEN clock - tsHeader ELSE tsHeader - clock) > TS_TOLERANCE
  THEN "false"
  ELSE IF timingSafeEqualStr(HmacBase64(cfg.secret, rawBody), sigHeader) THEN "true"
  ELSE "false"

\* verifyShoplazzaSignature, shoplazzaAuth.js:110-138
verifyShoplazzaSignature(cfg, sigHeader, tsHeader, rawBody, clock) ==
  IF cfg.secret = NULL THEN "throw"
  ELSE IF tsHeader # NoTimestamp /\ tsHeader = NotANumber THEN "false"
  ELSE IF /\ tsHeader # NoTimestamp
          /\ (IF clock >= tsHeader THEN clock - tsHeader ELSE tsHeader - clock) > TS_TOLERANCE
  THEN "false"
  ELSE IF timingSafeEqualStr(HmacBase64(cfg.secret, rawBody), sigHeader) THEN "true"
  ELSE "false"

\* maybeVerifyShoplazzaSignature, shoplazzaAuth.js:140-159 : the response
\* code it ends the request with, or 0 when it calls next()
maybeVerifyShoplazzaSignature(cfg, sigHeader, tsHeader, rawBody, clock) ==
  LET verified == verifyShoplazzaSignature(cfg, sigHeader, tsHeader, rawBody, clock)
  IN IF ~cfg.verify THEN 0
     ELSE IF verified = "throw" THEN 500
     ELSE IF verified = "false" THEN 401
     ELSE 0

\* the object paymentSession.js:86-95 passes to createOrUpdatePayment, as the
\* parameters of payments.js:97-107 receive it: the properties shop,
\* shoplazza_payment_id, order_id, idempotency_key and nonce are not
\* parameters, so shopDomain, orderId and paymentId take their defaults
sessionLedgerArgs(body) ==
  Args(NULL, NULL, NULL, NULL, body.amount, body.currency, "pending", NULL, TRUE)

\* the options of paymentSession.js:142-156
sessionHostedOptions(body) ==
  [ id |-> body.id, merch |-> PlainEnv.ROCKETGATE_MERCHANT_ID,
    hashSecret |-> PlainEnv.ROCKETGATE_HASH_SECRET, amount |-> body.amount,
    extra |-> << <<"invoice", body.shoplazza_order_id>>, <<"currency", body.currency>>,
                 <<"purchase", "true">>, <<"success", "success-url">>, <<"fail", "fail-url">> >> ]

\* POST /payments/session, paymentSession.js:40-166 ; h are the signature and
\* timestamp headers and the time the platform signed the body (which the
\* handler does not see). The awaited ledger call runs here without
\* interleaving; the copy written to webhook_logs is left out
paymentSession(body, h, cfg) ==
  LET gate == maybeVerifyShoplazzaSignature(cfg, h.sig, h.ts, body, now)
      req == [body |-> body, sig |-> h.sig, ts |-> h.ts, signedAt |-> h.signedAt,
              cfg |-> cfg, at |-> now]
      a == sessionLedgerArgs(body)
      built == buildHostedPageUrl(sessionHostedOptions(body), PlainEnv, now)
  IN /\ IF gate # 0
        THEN /\ Reply(Answer("payment_session", req, gate, [redirect_url |-> NoUrl]))
             /\ UNCHANGED <<payments, nextId, last>>
        ELSE IF NULL \in {body.id, body.shoplazza_order_id, body.amount, body.currency,
                          body.complete_url, body.callback_url}
        THEN /\ Reply(Answer("payment_session", req, 400, [redirect_url |-> NoUrl]))
             /\ UNCHANGED <<payments, nextId, last>>
        ELSE /\ couRun("createOrUpdatePayment", a, a)
             /\ IF built.out = "throw"
                THEN Reply(Answer("payment_session", req, 500, [redirect_url |-> NoUrl]))
                ELSE Reply(Answer("payment_session", req, 200, [redirect_url |-> built.url]))
     /\ UNCHANGED <<tasks, orders, appVars>>

\* SHOPLAZZA_WEBHOOK_SECRET
WebhookSecret == "webhook_secret"

\* verification on with the secret set, on without secret, off
SessionConfigs ==
  { [verify |-> TRUE, secret |-> WebhookSecret], [verify |-> TRUE, secret |-> NULL],
    [verify |-> FALSE, secret |-> WebhookSecret] }

\* a complete body, and one without payment attempt id
SessionBodies ==
  { [id |-> id, shoplazza_order_id |-> "o1", amount |-> "10.00", currency |-> "USD",
     complete_url |-> "complete-url", callback_url |-> "callback-url"] : id \in {"p1", NULL} }

\* the headers of a request the platform signed at time t and that arrives
\* now or later: the right signature with and without the timestamp of
\* signing, with a timestamp that is no number, a wrong signature, none
SessionHeaders(body, t) ==
  { [sig |-> HmacBase64(WebhookSecret, body), ts |-> ts, signedAt |-> t] :
      ts \in {NoTimestamp, NotANumber, t} }
    \cup { [sig |-> sig, ts |-> NoTimestamp, signedAt |-> t] :
             sig \in {HmacBase64("guess", body), EmptyText} }

PaySessionNext ==
  \/ \E body \in SessionBodies, cfg \in SessionConfigs, t \in 0..now :
       \E h \in SessionHeaders(body, t) : paymentSession(body, h, cfg)
  \/ Tick

PaySessionInit == InitWith(PaySessionMaxCalls)

PaySessionSpec == PaySessionInit /\ [][PaySessionNext]_vars

(* ---- SequenceSpec: a buyer return and a notify, one after the other --- *)

SequenceMaxCalls == 3

\* setPaymentStatus, payments.js:183-218, run to completion on the table
\* `rows`: the tables it can leave (one for each row getPayment can return)
setPaymentStatusRows(rows, a) ==
  IF a.orderId = NULL \/ a.status = NULL THEN {rows}
  ELSE { IF prev = NoRow
         THEN LET w == couToWrite(spsAsCreateArgs(a), NoRow)
              IN IF NotNullViolation(w) THEN rows ELSE couUpsert(rows, nextId, w)
         ELSE IF ~canAdvance(prev.status, a.status) THEN rows
         ELSE spsUpdate(rows, a, prev) : prev \in getPayment(rows, a.orderId) }

\* the status update completePaymentHandler makes, callbacks.js:189-193
returnUpdate(req) ==
  Args(NULL, req.orderId, NULL, NULL, NULL, NULL, mapReturnResult(req.result), req.txn, TRUE)

\* the status update POST /notify makes, callbacks.js:310-316
notifyUpdate(told) ==
  Args(NULL, told.orderId, NULL, NULL, NULL, NULL, mapNotifyStatus(told.status), told.txn, TRUE)

\* the tables left by the update a followed by the update b
thenRows(rows, a, b) ==
  UNION { setPaymentStatusRows(t, b) : t \in setPaymentStatusRows(rows, a) }

\* the statuses the rows of order orderId have in the tables `tables`
statusesIn(tables, orderId) ==
  { r.status : r \in {q \in UNION tables : q.order_id = orderId} }

\* one buyer return and one accepted notify for an order that has a row are
\* processed, each to the end of its status update, the one named by `first`
\* before the other; the entry records the status left and the status the
\* other order would have left
returnAndNotify(req, told, first) ==
  LET back == returnUpdate(req)
      heard == notifyUpdate(told)
      inOrder == IF first = "return" THEN thenRows(payments, back, heard)
                 ELSE thenRows(payments, heard, back)
      swapped == IF first = "return" THEN thenRows(payments, heard, back)
                 ELSE thenRows(payments, back, heard)
  IN /\ told.orderId = req.orderId
     /\ \E r \in payments : r.order_id = req.orderId
     /\ \E table \in inOrder :
          /\ payments' = table
          /\ Reply(Answer("return_and_notify",
                     [orderId |-> req.orderId, result |-> req.result, status |-> told.status,
                      first |-> first, prior |-> statusesIn({payments}, req.orderId)],
                     200,
                     [final |-> statusesIn({table}, req.orderId),
                      swapped |-> statusesIn(swapped, req.orderId)]))
     /\ UNCHANGED <<nextId, tasks, last, orders, appVars>>

SequenceCreateArgs ==
  { Args("s1", "o1", "p1", NULL, NULL, NULL, st, NULL, TRUE) :
      st \in {"initiated", "pending", "returned_success", "paid"} }

SequenceReturns ==
  { Req("o1", NULL, NULL, NULL, rs, NULL) : rs \in {"success", "fail", "cancel"} }

SequenceNotifies ==
  { [orderId |-> "o1", status |-> st, txn |-> "t1"] : st \in {"approved", "declined", "review"} }

SequenceNext ==
  \/ \E a \in SequenceCreateArgs : createOrUpdatePayment(a)
  \/ \E req \in SequenceReturns, told \in SequenceNotifies, first \in {"return", "notify"} :
       returnAndNotify(req, told, first)

SequenceInit == InitWith(SequenceMaxCalls)

SequenceSpec == SequenceInit /\ [][SequenceNext]_vars

(* ----------------------------- claims --------------------------------- *)

\* the rank order as the specification states it, lowest first
StatedOrder ==
  << "initiated", "pending", "returned_fail", "returned_success", "paid",
     "refunded", "voided", "chargeback", "error", "declined" >>

StatedRank(s) == CHOOSE i \in 1..Len(StatedOrder) : StatedOrder[i] = s

\* the last call was setPaymentStatus on a record that already existed
SetStatusOnExisting ==
  /\ last.fn = "setPaymentStatus"
  /\ last.prev # NoRow

\* C1: for every pair (old, new) of the ten statuses, setPaymentStatus(new) on
\* an existing record whose status is old returns (and leaves stored) a record
\* whose status is new when rank(new) >= rank(old) and old otherwise.
C1_ForwardOnlyResult ==
  (SetStatusOnExisting /\ last.prev.status \in Vocabulary /\ last.args.status \in Vocabulary)
    => LET old == last.prev.status
           new == last.args.status
           expected == IF StatedRank(new) >= StatedRank(old) THEN new ELSE old
       IN /\ last.outcome = "ok"
          /\ last.ret.status = expected
          /\ \A r \in payments :
               (r.order_id = last.args.orderId /\ (expected = new \/ r.id = last.prev.id))
                 => r.status = expected

\* C1 witness: a lower-ranked candidate was refused and a higher one applied
C1_Witness ==
  /\ SetStatusOnExisting
  /\ last.prev.status = "paid"
  /\ last.args.status = "returned_success"
  /\ last.ret.status = "paid"

C5_DowngradeIsNoOp ==
  [][ ( /\ budget' = budget - 1
        /\ last'.fn = "setPaymentStatus"
        /\ last'.prev # NoRow
        /\ RankOf(last'.args.status) < RankOf(last'.prev.status) )
      => ( /\ payments' = payments
           /\ last'.outcome = "ok"
           /\ last'.ret = last'.prev
           /\ last'.ret \in payments' ) ]_vars

\* C5 witness: a downgrade carrying a new transaction id and a history append
\* was answered with the unchanged record
C5_Witness ==
  /\ SetStatusOnExisting
  /\ RankOf(last.args.status) < RankOf(last.prev.status)
  /\ last.args.rocketgateTxnId = "t2"
  /\ last.args.appendHistory
  /\ last.prev.rocketgate_txn = "t1"
  /\ last.ret = last.prev

\* C3 as stated: over any sequence of createOrUpdatePayment and
\* setPaymentStatus calls, each run to completion, the rank of the stored
\* status of every payment row never decreases, also when the order has
\* several payment rows.
C3_RankNeverDecreases ==
  [][ \A r \in payments : \A q \in payments' :
        q.id = r.id => RankOf(q.status) >= RankOf(r.status) ]_vars

\* the write step of a ledger call in flight
WriteStep ==
  \E t \in TaskIds :
    /\ tasks[t].pc \in {"cou_write", "sps_write"}
    /\ tasks'[t].pc # tasks[t].pc

\* C2 as stated: when status-writing calls for the same order interleave
\* between their read and their write, the write applies the forward-only
\* check to the row as it is at the write, so no write lowers the rank of a
\* status another call has already committed.
C2_NoLostUpdate ==
  [][ WriteStep =>
        \A r \in payments : \A q \in payments' :
          q.id = r.id => RankOf(q.status) >= RankOf(r.status) ]_vars

\* no two rows share (shop, order id, payment attempt id), and rows without a
\* payment attempt id are at most one per (shop, order id)
UniqueKeys(rows) ==
  \A r \in rows : \A q \in rows :
    ( /\ r.shop_domain = q.shop_domain
      /\ r.order_id = q.order_id
      /\ (r.payment_id = q.payment_id \/ NULL \in {r.payment_id, q.payment_id}) )
      => r = q

\* C7: after any sequence of ledger writes, concurrent first writes for the
\* same order included, no two payment rows share (shop, order id, payment
\* attempt id), and while no payment attempt id is known there is at most one
\* row per (shop, order id).
C7_UniqueRows == UniqueKeys(payments)

\* C7 witness: two first writes for the same order were in flight together,
\* both had read "no row", and both have written
C7_Witness ==
  /\ Cardinality(payments) = 1
  /\ \A t \in TaskIds :
       /\ tasks[t].pc = "cou_ret"
       /\ tasks[t].prev = NoRow

\* no ledger call is in flight
Quiescent == \A t \in TaskIds : tasks[t].pc = "idle"

\* C6: a buyer-return that arrives while the order has no ledger row is
\* answered 200 and leaves a placeholder row carrying the returned status; a
\* session-init that follows is answered 200 and the row then carries the
\* amount, currency and customer id of that request and still the status set
\* by the return.
C6_ReturnBeforeInit ==
  (Quiescent /\ Len(http) >= 1 /\ http[1].route = "complete_payment" /\ http[1].result # NULL)
    => /\ http[1].code = 200
       /\ Len(http) = 1 =>
            \E r \in payments :
              /\ r.order_id = http[1].orderId
              /\ r.status = mapReturnResult(http[1].result)
       /\ (Len(http) = 2 /\ http[2].route = "pay_init" /\ http[2].code \notin {400, 500}) =>
            /\ http[2].code = 200
            /\ \E r \in payments :
                 /\ r.order_id = http[1].orderId
                 /\ r.amount = SqlAmount(http[2].amount)
                 /\ r.currency = http[2].currency
                 /\ r.customer_id = http[2].customerId
                 /\ r.status = mapReturnResult(http[1].result)

\* a POST /pay/init request that passed validation
ValidInit(e) == e.route = "pay_init" /\ e.code \notin {400, 500}

SameCore(e, f) ==
  /\ normalizeMajorAmountStr(e.amount) = normalizeMajorAmountStr(f.amount)
  /\ e.currency = f.currency
  /\ e.customerId = f.customerId

\* C8: when an order is touched by POST /pay/init only, a request with the
\* orderId, amount, currency and customer id of the first accepted one is
\* answered 200, and a request for the same order with a different amount or
\* customer id is answered 409.
C8_IdempotentInit ==
  \A j \in DOMAIN http :
    (ValidInit(http[j]) /\ \A i \in 1..(j - 1) : http[i].route = "pay_init") =>
      LET accepted == {i \in 1..(j - 1) : /\ ValidInit(http[i])
                                            /\ http[i].code = 200
                                            /\ http[i].orderId = http[j].orderId}
      IN IF accepted = {} THEN http[j].code = 200
         ELSE LET first == CHOOSE i \in accepted : \A k \in accepted : i <= k
              IN IF SameCore(http[first], http[j])
                 THEN http[j].code = 200
                 ELSE http[j].code = 409

\* the core fields on which row r holds a value other than the one requested
Differing(r, e) ==
  {f \in {"amount", "currency", "customer"} :
     \/ f = "amount" /\ r.amount # NULL
          /\ normalizeMajorAmountStr(r.amount) # normalizeMajorAmountStr(e.amount)
     \/ f = "currency" /\ r.currency # NULL /\ r.currency # e.currency
     \/ f = "customer" /\ r.customer_id # NULL /\ r.customer_id # e.customerId}

\* the name each route gives a core field in its conflicts list
ConflictName(route, f) ==
  IF f = "customer"
  THEN (IF route = "pay_init" THEN "customer.id" ELSE "customerId")
  ELSE f

\* C9: a session-init that passed validation, for an order whose row holds a
\* non-null amount, currency or customer id other than the requested one, is
\* answered 409, its conflicts list names exactly the differing fields, and
\* the request makes no ledger write.
C9_ConflictRejected ==
  [][ \A r \in payments :
        LET e == http'[Len(http')]
        IN ( /\ Len(http') = Len(http) + 1
             /\ e.route \in {"pay_init", "app_proxy_init"}
             /\ e.code \notin {400, 401, 500}
             /\ r.order_id = e.orderId
             /\ Differing(r, e) # {} )
           => /\ e.code = 409
              /\ e.conflicts = {ConflictName(e.route, f) : f \in Differing(r, e)}
              /\ tasks' = tasks ]_vars

\* C10: when the write of a session-init finds a row with some of amount,
\* currency and customer id missing and no value that differs from the
\* request, every one of amount, currency, customer id and status that was
\* non-null on the row keeps its value.
C10_BackfillKeepsSetFields ==
  [][ \A t \in TaskIds :
        LET prev == tasks[t].prev
            a == tasks[t].args
        IN ( /\ tasks[t].pc = "cou_write"
             /\ tasks'[t].pc # "cou_write"
             /\ tasks[t].via \in {"pay_init", "app_proxy_init"}
             /\ prev \in payments
             /\ NULL \in {prev.amount, prev.currency, prev.customer_id}
             /\ payInitConflicts(prev, normalizeMajorAmountStr(a.amount), a.currency, a.customerId) = {} )
           => \E q \in payments' :
                /\ q.id = prev.id
                /\ prev.amount # NULL => q.amount = prev.amount
                /\ prev.currency # NULL => q.currency = prev.currency
                /\ prev.customer_id # NULL => q.customer_id = prev.customer_id
                /\ prev.status # NULL => q.status = prev.status ]_vars

\* sequence s is an initial segment of sequence t
IsPrefix(s, t) == Len(s) <= Len(t) /\ SubSeq(t, 1, Len(s)) = s

\* C14: over ledger writes that each run to completion, the status history
\* of every payment row before a write is a prefix of its history after the
\* write.
C14_HistoryAppendOnly ==
  [][ \A r \in payments : \A q \in payments' :
        q.id = r.id => IsPrefix(r.status_history, q.status_history) ]_vars

\* the history row q of the table after a step had before the step
HistoryBefore(q) ==
  IF \E r \in payments : r.id = q.id
  THEN (CHOOSE r \in payments : r.id = q.id).status_history
  ELSE <<>>

\* C15: a createOrUpdatePayment call that completes with appendHistory=true
\* writes a record whose history is its previous history plus exactly one
\* entry recording the resulting status; with appendHistory=false the
\* history of the record is what it was.
C15_OneEntryPerMerge ==
  [][ (budget' = budget - 1 /\ last'.fn = "createOrUpdatePayment" /\ last'.outcome = "ok") =>
        IF last'.args.appendHistory
        THEN /\ payments' # payments
             /\ \A q \in payments' \ payments :
                  q.status_history =
                    Append(HistoryBefore(q), [status |-> q.status, source |-> "createOrUpdate"])
        ELSE \A q \in payments' : q.status_history = HistoryBefore(q) ]_vars

\* C17: a ledger write called with no transaction id leaves every
\* transaction id that is stored on a payment row as it is.
C17_NullTxnKeepsStored ==
  [][ (budget' = budget - 1 /\ last'.args.rocketgateTxnId = NULL) =>
        \A r \in payments : \A q \in payments' :
          (q.id = r.id /\ r.rocketgate_txn # NULL) => q.rocketgate_txn = r.rocketgate_txn ]_vars

\* C16: once the customer id of a payment row is non-null, no ledger call
\* changes it to another value.
C16_CustomerIdImmutable ==
  [][ \A r \in payments : \A q \in payments' :
        (q.id = r.id /\ r.customer_id # NULL) => q.customer_id = r.customer_id ]_vars

\* some payment row of order o holds status st
HasStatus(o, st) == \E r \in payments : r.order_id = o /\ r.status = st

\* entry e of http is a notify for order o, answered 200, with raw status st
IsNotify(e, o, st) ==
  e.route = "notify" /\ e.orderId = o /\ e.result = st /\ e.code = 200

\* C11: for an order initialised by POST /pay/init, once every ledger call
\* has settled, a buyer return with result=success leaves the status
\* returned_success, a following notify with status=approved leaves it paid,
\* and a later notify with status=declined leaves it declined.
C11_ReturnThenNotify ==
  ( /\ Quiescent
    /\ Len(http) >= 2
    /\ ValidInit(http[1]) /\ http[1].code = 200
    /\ http[2].route = "complete_payment" /\ http[2].orderId = http[1].orderId
    /\ http[2].result = "success" /\ http[2].code = 200 )
    => LET o == http[1].orderId
       IN /\ Len(http) = 2 => HasStatus(o, "returned_success")
          /\ (Len(http) = 3 /\ IsNotify(http[3], o, "approved")) => HasStatus(o, "paid")
          /\ (Len(http) = 4 /\ IsNotify(http[3], o, "approved")
                /\ IsNotify(http[4], o, "declined")) => HasStatus(o, "declined")

\* C12: a buyer-return request made when every payment row of its order
\* already holds paid or a higher-ranked status never changes the status of
\* a payment row, whatever its result value.
C12_ReturnAfterPaid ==
  [][ \A t \in TaskIds :
        ( /\ tasks[t].via = "complete_payment"
          /\ tasks[t].seen # {}
          /\ \A st \in tasks[t].seen : RankOf(st) >= RANK["paid"]
          /\ tasks'[t] # tasks[t] )
        => \A r \in payments : \A q \in payments' :
             q.id = r.id => q.status = r.status ]_vars

\* C18: the status of every payment row is one of the ten statuses of the
\* rank table, whatever result and status values the buyer returns and the
\* notifies carried.
C18_StatusInVocabulary == \A r \in payments : r.status \in Vocabulary

\* the step is the arrival of a notify request: its log entry is appended
NotifyArrives == Len(http') = Len(http) + 1 /\ http'[Len(http')].route = "notify"

\* the notify request that arrived in the step
Arrived == http'[Len(http')]

\* C19: with signature verification enabled, a notify whose timestamp is
\* outside the tolerance is answered 401 and starts no ledger call, even when
\* its signature is the correct HMAC of the body.
C19_StaleTimestampRejected ==
  [][ ( /\ NotifyArrives
        /\ Arrived.auth.cfg.spzVerify
        /\ Arrived.auth.spzSig = HmacSha256(SpzSecret, Arrived.auth.body)
        /\ Arrived.auth.ts = "stale" )
      => (Arrived.code = 401 /\ tasks' = tasks) ]_vars

\* the RocketGate signature header of the arrived notify is the HMAC-SHA256 of
\* its raw body under the configured secret
RgSigMatches ==
  /\ Arrived.auth.cfg.rgSecret # NULL
  /\ Arrived.auth.sig = HmacSha256(Arrived.auth.cfg.rgSecret, Arrived.auth.body)

\* C20: with the RocketGate notify check enabled, a notify whose signature
\* header is missing or is not the HMAC-SHA256 of the raw body is answered
\* with an error status and starts no ledger call; a notify (with order id and
\* status) carrying the matching signature is answered 200 and starts the
\* ledger update.
C20_RocketGateFailsClosed ==
  [][ ( /\ NotifyArrives
        /\ Arrived.auth.cfg.rgVerify
        /\ Arrived.orderId # NULL /\ Arrived.result # NULL )
      => IF RgSigMatches
         THEN /\ Arrived.code = 200
              /\ \E t \in TaskIds :
                   /\ tasks[t].pc = "idle"
                   /\ tasks'[t].via = "notify"
                   /\ tasks'[t].fn = "setPaymentStatus"
         ELSE /\ Arrived.code >= 400
              /\ tasks' = tasks ]_vars

\* C20 witness: one notify with a signature made with another key was
\* refused, and one with the matching signature was accepted and its ledger
\* update applied
C20_Witness ==
  /\ \E i \in 1..Len(http) :
       /\ http[i].route = "notify" /\ http[i].auth.cfg.rgVerify
       /\ http[i].auth.sig = HmacSha256("guess", http[i].auth.body)
       /\ http[i].code = 400
  /\ \E i \in 1..Len(http) :
       /\ http[i].route = "notify" /\ http[i].auth.cfg.rgVerify
       /\ http[i].auth.sig = HmacSha256(RgSecret, http[i].auth.body)
       /\ http[i].auth.cfg.rgSecret = RgSecret
       /\ http[i].code = 200
  /\ last.via = "notify" /\ last.fn = "setPaymentStatus"

\* entry i of http is a notify for order o, answered 200, whose status maps
\* to paid, and it follows a POST /order for o answered 201
PaidNotifyAfterPost(i, o) ==
  /\ http[i].route = "notify" /\ http[i].orderId = o /\ http[i].code = 200
  /\ mapNotifyStatus(http[i].result) = "paid"
  /\ \E j \in 1..(i - 1) :
       http[j].route = "order_post" /\ http[j].orderId = o /\ http[j].code = 201

\* C13: for an order created through POST /order, a GET /order/:id made
\* after a paid notify for that order has been processed (with or without a
\* later failing buyer return) is answered 200 with status paid.
C13_OrderApiReportsLedger ==
  [][ ( /\ Len(http') = Len(http) + 1
        /\ http'[Len(http')].route = "order_get"
        /\ Quiescent
        /\ \E i \in 1..Len(http) : PaidNotifyAfterPost(i, http'[Len(http')].orderId) )
      => ( /\ http'[Len(http')].code = 200
           /\ http'[Len(http')].status = "paid" ) ]_vars

\* the position of a launch key in lexicographic order
KeyRank == [install_from |-> 1, shop |-> 2, store_id |-> 3]

\* the pairs key=value of every parameter of q but hmac, sorted by key
SortedPairs(q) ==
  LET keys == DOMAIN q \ {"hmac"}
      n == Cardinality(keys)
  IN CHOOSE sq \in [1..n -> {<<k, q[k]>> : k \in keys}] :
       /\ \A k \in keys : \E i \in 1..n : sq[i][1] = k
       /\ \A i \in 1..n : \A j \in 1..n : i < j => KeyRank[sq[i][1]] < KeyRank[sq[j][1]]

\* the entries of http that are launches checked against a configured secret
CheckedLaunches ==
  { i \in 1..Len(http) : /\ http[i].route = "app_start"
                         /\ http[i].req.env.verifyEmbed
                         /\ http[i].req.env.clientSecret # NULL }

\* C21: a launch is let through only when its hmac parameter is (as a hex
\* number) the HMAC of the other parameters sorted by key; an empty or missing
\* hmac is refused with reason no_hmac, any other non-matching hmac with
\* reason mismatch, and a refused launch gets no session cookie.
C21_LaunchHmacChecked ==
  \A i \in CheckedLaunches :
    LET q == http[i].req.query
        provided == IF "hmac" \in DOMAIN q THEN q["hmac"] ELSE EmptyText
        expected == HmacHex(http[i].req.env.clientSecret, SortedPairs(q))
        matches == provided.len = 64 /\ provided.mac = expected.mac
    IN /\ matches <=> http[i].code = 302
       /\ provided = EmptyText => (http[i].code = 401 /\ http[i].body.reason = "no_hmac")
       /\ (provided # EmptyText /\ ~matches)
            => (http[i].code = 401 /\ http[i].body.reason = "mismatch")
       /\ http[i].code # 302 => http[i].body.cookie = NoCookie
       /\ http[i].code = 302 => http[i].body.cookie # NoCookie

\* C21 witness: one launch was refused for a missing hmac, one for an hmac
\* made over the keys in the order sent, and one was let through and got a
\* session cookie
C21_Witness ==
  /\ \E i \in CheckedLaunches : http[i].body.reason = "no_hmac"
  /\ \E i \in CheckedLaunches :
       /\ http[i].body.reason = "mismatch"
       /\ http[i].req.query["hmac"].mac[1] = http[i].req.env.clientSecret
  /\ \E i \in CheckedLaunches : http[i].code = 302 /\ http[i].body.cookie # NoCookie

\* the entries of http that are requests to the session-protected API
Protected == { i \in 1..Len(http) : http[i].route = "whoami" /\ http[i].req.required }

\* the cookie is a payload naming a shop, with the signature of that payload
\* under the server secret
SignedForShop(c) ==
  /\ c # NoCookie
  /\ Len(c) >= 2
  /\ c[2] = HmacHex(AppSessionSecret, c[1])
  /\ c[1][2][1] = "json"
  /\ c[1][2][2].shop # ""

\* C22: a session cookie is accepted, and yields the shop and store id it was
\* issued for, exactly when its signature is the HMAC of its payload under
\* the server secret and the time of the request is strictly before the
\* expiry; at or after the expiry it is refused.
C22_SessionValidUntilExpiry ==
  \A i \in Protected :
    LET c == http[i].req.cookie
    IN /\ http[i].code = 200 => SignedForShop(c)
       /\ SignedForShop(c) =>
            LET payload == c[1][2][2]
            IN IF http[i].req.at < payload.exp
               THEN /\ http[i].code = 200
                    /\ http[i].body.shop = payload.shop
                    /\ http[i].body.storeId = payload.storeId
               ELSE http[i].code = 401

\* C23: a malformed or forged session cookie (no separator, a signature of
\* the wrong length or value, a payload that does not decode, no shop) is
\* answered 401 no_session and the protected handler does not run.
C23_BadCookieIs401 ==
  \A i \in Protected :
    (http[i].req.cookie # NoCookie /\ ~SignedForShop(http[i].req.cookie))
      => (http[i].code = 401 /\ http[i].body.error = "no_session")

\* the step is the arrival of an OAuth callback
CallbackArrives == Len(http') = Len(http) + 1 /\ http'[Len(http')].route = "auth_callback"

\* C24: a callback goes on to the token exchange only when its state is in
\* the state store for the shop it names, and that state is then removed: a
\* state never issued, issued for another shop or already consumed does not
\* reach the token exchange.
C24_StateSingleUse ==
  [][ (CallbackArrives /\ http'[Len(http')].body.exchanged)
      => \E e \in OAUTH_STATES :
           /\ e.state = http'[Len(http')].req.state
           /\ e.shop = normalizeShopHost(http'[Len(http')].req.shop)
           /\ e \notin OAUTH_STATES' ]_vars

\* C25: a callback that presents (without cookie) a state issued longer ago
\* than the lifetime of the state does not reach the token exchange.
C25_StateExpires ==
  [][ ( /\ CallbackArrives
        /\ http'[Len(http')].req.cookie = NoCookie
        /\ \E e \in OAUTH_STATES :
             /\ e.state = http'[Len(http')].req.state
             /\ now > e.ts + OAUTH_COOKIE_MAX_AGE )
      => ~http'[Len(http')].body.exchanged ]_vars

\* C26: whenever a callback was answered with the redirect to the installed
\* page, the shops table holds a row for that shop with the access token
\* that was exchanged.
C26_InstalledShopIsStored ==
  \A i \in 1..Len(http) :
    (http[i].route = "auth_callback" /\ http[i].body.installed)
      => \E r \in shops :
           /\ r.shop = normalizeShopHost(http[i].req.shop)
           /\ r.access_token = http[i].req.exchange.access_token

\* the saves that were carried out
Saves == { i \in 1..Len(http) : http[i].route = "rg_settings_post" /\ http[i].code \in {200, 303} }

\* the key text a save carries: merchantKey, else merchantPassword, else none
GivenKey(body) ==
  IF body.merchantKey # NULL THEN body.merchantKey ELSE body.merchantPassword

\* the key is omitted, empty or only blanks
Blank(k) == k \in {NULL, "", "   "}

\* the key without surrounding blanks
Stripped(k) == IF k = " k2 " THEN "k2" ELSE k

\* C27: a save with the merchant key omitted, empty or blank leaves the
\* stored merchant key as it was; a save with a non-empty key stores that key.
C27_BlankKeyKeepsStored ==
  \A i \in Saves :
    LET k == GivenKey(http[i].req.body)
    IN IF Blank(k)
       THEN http[i].req.stored.merchantKey = http[i].req.before.merchantKey
       ELSE http[i].req.stored.merchantKey = Stripped(k)

\* C27 witness: a blank save kept a stored key and a later save replaced it
C27_Witness ==
  /\ \E i \in Saves :
       /\ Blank(GivenKey(http[i].req.body))
       /\ http[i].req.before.merchantKey = "k1"
       /\ http[i].req.stored.merchantKey = "k1"
  /\ \E i \in Saves :
       /\ http[i].req.before.merchantKey = "k1"
       /\ http[i].req.stored.merchantKey = "k2"

\* the responses of the settings API that carry a settings object
SettingsShown ==
  { i \in 1..Len(http) :
      \/ http[i].route = "rg_settings_get" /\ http[i].code = 200 /\ http[i].body.settings # NoSettings
      \/ http[i].route = "rg_settings_post" /\ http[i].code = 200 }

\* the settings object response i carries
Shown(i) == IF http[i].route = "rg_settings_get" THEN http[i].body.settings ELSE http[i].body.saved

\* C28: every settings object the API sends shows the merchant key as
\* ******** when a key is stored and as the empty string when none is, and
\* is otherwise the stored row: two responses for rows that differ only in
\* the key are equal, and none carries the key.
C28_KeyAlwaysMasked ==
  \A i \in SettingsShown :
    LET row == http[i].req.stored
    IN /\ Shown(i).merchantKey = IF row.merchantKey # NULL THEN "********" ELSE ""
       /\ Shown(i) = [row EXCEPT !.merchantKey = Shown(i).merchantKey]
       /\ \A j \in SettingsShown :
            (/\ http[j].req.stored.merchantKey # NULL /\ row.merchantKey # NULL
             /\ [http[j].req.stored EXCEPT !.merchantKey = NULL] = [row EXCEPT !.merchantKey = NULL])
              => Shown(j) = Shown(i)

\* C28 witness: the settings of one shop were shown while two different
\* keys were stored, and the two responses are equal
C28_Witness ==
  \E i \in SettingsShown : \E j \in SettingsShown :
    /\ http[i].req.stored.merchantKey = "k1"
    /\ http[j].req.stored.merchantKey = "k2"
    /\ http[i].route = "rg_settings_post" /\ http[j].route = "rg_settings_get"
    /\ Shown(i) = Shown(j)

\* the hosted-page URLs that were built
Built == { i \in 1..Len(http) : http[i].route = "hosted_page" /\ http[i].body.out = "return" }

\* the values of the hash parameters of URL i
HashParams(i) ==
  LET ps == http[i].body.url.params
  IN { ps[n][2] : n \in { m \in 1..Len(ps) : ps[m][1] = "hash" } }

\* the merchant id and the secret build i signs with
MerchOf(i) ==
  IF http[i].req.options.merch # NULL THEN http[i].req.options.merch
  ELSE http[i].req.env.ROCKETGATE_MERCHANT_ID

SecretOf(i) ==
  IF http[i].req.options.hashSecret # NULL THEN http[i].req.options.hashSecret
  ELSE http[i].req.env.ROCKETGATE_HASH_SECRET

\* the five signed fields of build i
SignedFields(i) ==
  <<http[i].req.options.id, MerchOf(i), http[i].req.options.amount, http[i].req.at>>

\* C29: the hash parameter of a hosted-page URL is the HMAC, under the
\* secret, of id=..&merch=..&amount=..&purchase=true&time=.. in that order;
\* two URLs built from the same signed fields at the same time with the same
\* secret and encoding carry the same hash whatever their extra parameters.
C29_HashOverSignedFields ==
  \A i \in Built :
    /\ \E h \in HashParams(i) :
         /\ HashParams(i) = {h}
         /\ h.alg = "sha256"
         /\ h.key = SecretOf(i)
         /\ h.msg = << <<"id", http[i].req.options.id>>, <<"merch", MerchOf(i)>>,
                       <<"amount", http[i].req.options.amount>>, <<"purchase", "true">>,
                       <<"time", http[i].req.at>> >>
    /\ \A j \in Built :
         (/\ SignedFields(j) = SignedFields(i)
          /\ SecretOf(j) = SecretOf(i)
          /\ http[j].req.env.ROCKETGATE_HASH_ENCODING = http[i].req.env.ROCKETGATE_HASH_ENCODING)
           => HashParams(j) = HashParams(i)

\* C29 witness: two URLs built from the same signed fields with different
\* extra parameters carry the same hash
C29_Witness ==
  \E i \in Built : \E j \in Built :
    /\ SignedFields(j) = SignedFields(i)
    /\ SecretOf(j) = SecretOf(i)
    /\ http[j].req.env = http[i].req.env
    /\ http[j].req.options.extra # http[i].req.options.extra
    /\ http[j].body.url.params # http[i].body.url.params
    /\ HashParams(j) = HashParams(i)

\* the host of the URL build i makes: that of the configured base URL, else
\* the production or the development host of the gateway
HostBuilt(i) ==
  IF http[i].req.env.ROCKETGATE_HOSTED_BASE_URL.host # NULL
  THEN http[i].req.env.ROCKETGATE_HOSTED_BASE_URL.host
  ELSE IF http[i].req.env.ROCKETGATE_ENV = "production"
  THEN "secure.rocketgate.com" ELSE "dev-secure.rocketgate.com"

\* the builds with an expected host configured, enforcement enabled and a
\* URL of another host
HostMismatchEnforced ==
  { i \in 1..Len(http) :
      /\ http[i].route = "hosted_page"
      /\ http[i].req.env.ROCKETGATE_EXPECTED_HOST # NULL
      /\ http[i].req.env.ROCKETGATE_ENFORCE_EXPECTED_HOST \in {"1", "true", "yes", "on"}
      /\ MerchOf(i) # NULL /\ SecretOf(i) # NULL
      /\ HostBuilt(i) # http[i].req.env.ROCKETGATE_EXPECTED_HOST }

\* C30: building a hosted-page URL whose host differs from the configured
\* expected host fails when enforcement is enabled; with enforcement
\* disabled or no expected host configured the URL is returned.
C30_HostMismatchFails ==
  \A i \in 1..Len(http) :
    http[i].route = "hosted_page" /\ MerchOf(i) # NULL /\ SecretOf(i) # NULL
      => IF i \in HostMismatchEnforced
         THEN http[i].body.out = "throw"
         ELSE http[i].body.out = "return"

\* the rows that exist before and after the step and whose status,
\* transaction id or history the step changed
RowsChanged ==
  { r \in payments :
      \E q \in payments' :
        /\ q.id = r.id
        /\ <<q.status, q.rocketgate_txn, q.status_history>>
             # <<r.status, r.rocketgate_txn, r.status_history>> }

\* C37: a status update changes only the record it addresses: a ledger call
\* changes the status, transaction id or history of at most one existing
\* row, and the rows of other shops or payment attempts of the order keep
\* theirs.
C37_UpdateTouchesOneRow ==
  [][ Cardinality(RowsChanged) <= 1 ]_vars

\* C39: when every write appends to the history (appendHistory = true) and
\* the writes run one after the other, the last entry of the status history
\* of every record carries the record's current status.
C39_LastEntryIsStatus ==
  \A r \in payments :
    /\ r.status_history # <<>>
    /\ r.status_history[Len(r.status_history)].status = r.status

\* C39 witness: a record advanced through two statuses, a write with a
\* lower-ranked status followed, and the last entry is the current status
C39_Witness ==
  /\ last.outcome = "ok"
  /\ last.args.appendHistory
  /\ last.args.status = "pending"
  /\ \E r \in payments :
       /\ r.status = "paid"
       /\ Len(r.status_history) >= 2
       /\ r.status_history[1].status = "pending"
       /\ r.status_history[Len(r.status_history)].status = "paid"

\* a buyer return is answered in this step
ReturnArrives ==
  /\ Len(http') = Len(http) + 1
  /\ http'[Len(http')].route = "complete_payment"
  /\ http'[Len(http')].code = 200

\* the ledger calls the step starts
Started == { t \in TaskIds : tasks[t].pc = "idle" /\ tasks'[t].pc # "idle" }

\* C34 as stated: a buyer return maps the result success to returned_success,
\* fail to returned_fail and every other result to returned_unknown.
C34_ReturnResultMapping ==
  [][ ReturnArrives =>
        /\ Started # {}
        /\ \A t \in Started :
             tasks'[t].args.status =
               CASE http'[Len(http')].result = "success" -> "returned_success"
                 [] http'[Len(http')].result = "fail" -> "returned_fail"
                 [] OTHER -> "returned_unknown" ]_vars

\* C34 (amended): a buyer return maps the result success to returned_success,
\* fail and failure to returned_fail, and every other result to
\* returned_unknown.
C34_ReturnResultMappingWithFailure ==
  [][ ReturnArrives =>
        /\ Started # {}
        /\ \A t \in Started :
             tasks'[t].args.status =
               CASE http'[Len(http')].result = "success" -> "returned_success"
                 [] http'[Len(http')].result \in {"fail", "failure"} -> "returned_fail"
                 [] OTHER -> "returned_unknown" ]_vars

\* C34 witness: a return with the result failure started a status update to
\* returned_fail
C34_Witness ==
  /\ Len(http) = 1
  /\ http[1].route = "complete_payment"
  /\ http[1].result = "failure"
  /\ \E t \in TaskIds :
       /\ tasks[t].via = "complete_payment"
       /\ tasks[t].fn = "setPaymentStatus"
       /\ tasks[t].args.status = "returned_fail"

\* a /pay/init request is answered in this step
PayInitArrives ==
  Len(http') = Len(http) + 1 /\ http'[Len(http')].route = "pay_init"

\* the request misses a field, or its amount is no number, or its currency
\* is not a three-letter code
MustBeRejected(e) ==
  \/ e.orderId = NULL \/ e.currency = NULL \/ e.customerId = NULL
  \/ e.amount \notin {"10", "10.0", "10.00", "15.5", "15.50"}
  \/ e.currency \notin {"USD", "usd", " usd "}

\* C33: a /pay/init request with a missing orderId, currency or customer id,
\* an amount that cannot be parsed or a currency that is not three letters
\* is answered 400 (500 when the merchant credentials are missing), and a
\* request answered 400 or 500 starts no ledger call and writes no row.
C33_RejectedInitWritesNothing ==
  [][ PayInitArrives =>
        LET e == http'[Len(http')]
        IN /\ MustBeRejected(e) => e.code \in {400, 500}
           /\ ~MustBeRejected(e) => e.code \in {200, 500}
           /\ e.code \in {400, 500} => tasks' = tasks /\ payments' = payments ]_vars

\* C33 witness: a request with an unparsable amount was answered 400 and one
\* without credentials 500, no ledger call was started and no row written
C33_Witness ==
  /\ Len(http) = 2
  /\ http[1].route = "pay_init" /\ http[1].amount = "abc" /\ http[1].code = 400
  /\ http[2].route = "pay_init" /\ http[2].code = 500
  /\ \A t \in TaskIds : tasks[t].pc = "idle"
  /\ payments = {}
  /\ last = NoCall

\* an app-proxy init request is answered in this step
ProxyArrives ==
  Len(http') = Len(http) + 1 /\ http'[Len(http')].route = "app_proxy_init"

\* the signature of entry e is the hex HMAC, under the shared secret, of the
\* other query parameters sorted by key
ProxySignatureMatches(e) ==
  e.auth[1] = [ len |-> 64, upper |-> FALSE,
                mac |-> << "proxy_secret",
                           << <<"amount", e.amount>>, <<"currency", e.currency>>,
                              <<"customerId", e.customerId>>, <<"orderId", e.orderId>> >> >> ]

\* C35: an app-proxy init request whose signature is missing, or is not the
\* HMAC of the sorted remaining query parameters (whatever its length), is
\* answered 401 and starts no ledger call; only a request with the matching
\* signature starts the upsert.
C35_BadProxySignatureIs401 ==
  [][ ProxyArrives =>
        LET e == http'[Len(http')]
        IN /\ ~ProxySignatureMatches(e) => e.code = 401 /\ tasks' = tasks
           /\ tasks' # tasks => ProxySignatureMatches(e) ]_vars

\* a payment session request is answered in this step
SessionArrives ==
  Len(http') = Len(http) + 1 /\ http'[Len(http')].route = "payment_session"

\* C31: after POST /payments/session answers a request that carries every
\* required field with a redirect_url (status 200, no redirect), the ledger
\* holds a payment row for the request's order id and payment attempt id
\* with status pending.
C31_SessionLeavesPendingRow ==
  [][ SessionArrives =>
        LET e == http'[Len(http')]
        IN e.body.redirect_url # NoUrl =>
             /\ e.code = 200
             /\ \E r \in payments' :
                  /\ r.order_id = e.req.body.shoplazza_order_id
                  /\ r.payment_id = e.req.body.id
                  /\ r.status = "pending" ]_vars

\* the requests answered with verification enabled and configured
Verified ==
  { i \in 1..Len(http) :
      /\ http[i].route = "payment_session"
      /\ http[i].req.cfg.verify /\ http[i].req.cfg.secret # NULL }

\* C36: with signature verification enabled, a request without timestamp
\* header is accepted whenever its signature is the HMAC of its body,
\* however long ago the body was signed; a request with a timestamp header
\* is refused when the timestamp is older than the tolerance.
C36_ReplayCheckNeedsTimestamp ==
  \A i \in Verified :
    LET q == http[i].req
        matches == q.sig = [len |-> 44, upper |-> FALSE, mac |-> <<q.cfg.secret, q.body>>]
    IN /\ (q.ts = NoTimestamp /\ matches) => http[i].code # 401
       /\ (q.ts = NoTimestamp /\ ~matches) => http[i].code = 401
       /\ (q.ts \in 0..MaxNow /\ q.at - q.ts > TS_TOLERANCE) => http[i].code = 401

\* C36 witness: a body signed two ticks earlier was accepted without
\* timestamp header, and the same body was refused with its timestamp
C36_Witness ==
  \E i \in Verified : \E j \in Verified :
    /\ http[i].req.ts = NoTimestamp
    /\ http[i].req.at - http[i].req.signedAt >= 2
    /\ http[i].code = 200
    /\ http[j].req.body = http[i].req.body
    /\ http[j].req.sig = http[i].req.sig
    /\ http[j].req.ts = http[j].req.signedAt
    /\ http[j].req.at - http[j].req.signedAt >= 2
    /\ http[j].code = 401

\* the value of the query-string parameter k of URL i
QueryValue(i, k) ==
  LET ps == http[i].body.url.params
  IN ps[CHOOSE n \in 1..Len(ps) : ps[n][1] = k][2]

\* C38: in every URL buildHostedPageUrl returns, the query-string values of
\* id, merch, amount, purchase and time are the values that were signed,
\* whatever extra parameters the caller passes.
C38_QueryCarriesSignedValues ==
  \A i \in Built :
    /\ QueryValue(i, "id") = http[i].req.options.id
    /\ QueryValue(i, "merch") = MerchOf(i)
    /\ QueryValue(i, "amount") = http[i].req.options.amount
    /\ QueryValue(i, "purchase") = "true"
    /\ QueryValue(i, "time") = http[i].req.at

\* an OAuth callback is answered in this step after its webhook registration
\* failed
WebhookRegistrationFails ==
  /\ Len(http') = Len(http) + 1
  /\ http'[Len(http')].route = "auth_callback"
  /\ http'[Len(http')].req.hooks \in {"http_error", "reject"}

\* a buyer return that names order, result and shop is answered in this step
\* without the platform having accepted the completion notification
CompletionNotificationFails ==
  /\ Len(http') = Len(http) + 1
  /\ http'[Len(http')].route = "complete_payment"
  /\ http'[Len(http')].orderId # NULL /\ http'[Len(http')].result # NULL
  /\ http'[Len(http')].shop # NULL
  /\ ~http'[Len(http')].completeNotified

InPlay(i) ==
  http[i].req.prior
    \cup {mapReturnResult(http[i].req.result), mapNotifyStatus(http[i].req.status)}

\* C40: for an existing record, one buyer return and one notify processed
\* one after the other leave the same final status in either order, and that
\* status is a highest-ranked one of the prior status and the two candidates.
C40_ReturnAndNotifyCommute ==
  \A i \in 1..Len(http) :
    http[i].route = "return_and_notify" =>
      /\ http[i].body.final = http[i].body.swapped
      /\ \A s \in http[i].body.final :
           /\ s \in InPlay(i)
           /\ \A c \in InPlay(i) : RankOf(s) >= RankOf(c)

====
